---------------------------- MODULE Spec2Model ----------------------------
(***************************************************************************)
(* Filesystem MCP server (filesystem-mcp-server): the startup script of    *)
(* index.ts, the six tool handlers of tools.ts, the resource reader of     *)
(* resources.ts, and the protocol core (registry, dispatcher, session)     *)
(* they are registered with.                                               *)
(*                                                                         *)
(* Text is a sequence of tokens.  A path string is the token sequence of   *)
(* its separators and its names, so "/w/a.txt" is <<"/","w","/","a.txt">>  *)
(* and "./nope" is <<".","/","nope">>.  A filesystem location is the       *)
(* sequence of the names on the way from the root, so "/w/a.txt" is at     *)
(* <<"w","a.txt">> and the root is at <<>>.                                *)
(***************************************************************************)
EXTENDS Integers, Sequences, FiniteSets, TLC

VARIABLES
    script,     \* the registration calls of the module's top level, in order
    proc,       \* the process: "starting", "serving", "exited"
    spc,        \* the step of the startup program the process is at
    mpc,        \* the registration call the module's top level is at
    statics,    \* result of buildStaticResources(), once main has computed it
    registry,   \* the server's catalog: tools, prompts, static resources, templates
    session,    \* "Unconnected", "Negotiating", "Ready", "Closed"
    fs,         \* the filesystem: location -> [kind, content]
    reqs,       \* requests of the host that are in flight or answered: id -> record
    nextId,     \* the next request id the host uses
    sent,       \* id -> number of responses written to the transport for it
    exitFault,  \* the fault the process exited with ("" while it has not)
    stdout,     \* writer -> number of writes to standard output
    stderr      \* the lines written to standard error: [by, text]

vars ==
    <<script, proc, spc, mpc, statics, registry, session, fs, reqs, nextId, sent,
      exitFault, stdout, stderr>>

-----------------------------------------------------------------------------
(* Bounds of the model *)

\* Requests the host issues in one run.
MaxReq == 3

\* Requests that are in the host's table (in flight, or answered and not yet
\* forgotten) at one time.
MaxInflight == 2

-----------------------------------------------------------------------------
(* Sequences and text *)

Last(s) == s[Len(s)]

Front(s) == SubSeq(s, 1, Len(s) - 1)

\* Array.prototype.join on lines that are token sequences.
RECURSIVE Join(_, _)
Join(lines, sep) ==
    IF lines = <<>> THEN <<>>
    ELSE IF Len(lines) = 1 THEN Head(lines)
    ELSE Head(lines) \o <<sep>> \o Join(Tail(lines), sep)

-----------------------------------------------------------------------------
(* Paths: node:path *)

\* process.cwd() of the server.
Cwd == <<"w">>

\* The names of a path string, separators dropped ("" between two separators
\* does not occur in the modelled strings).
RECURSIVE Segs(_)
Segs(str) ==
    IF str = <<>> THEN <<>>
    ELSE IF Head(str) = "/" THEN Segs(Tail(str))
    ELSE <<Head(str)>> \o Segs(Tail(str))

IsAbsolute(str) == str /= <<>> /\ Head(str) = "/"

\* Dot segments resolved against the location built so far; ".." at the root
\* stays at the root.
RECURSIVE Normalize(_, _)
Normalize(base, segs) ==
    IF segs = <<>> THEN base
    ELSE IF Head(segs) = "." THEN Normalize(base, Tail(segs))
    ELSE IF Head(segs) = ".."
        THEN Normalize(IF base = <<>> THEN <<>> ELSE Front(base), Tail(segs))
    ELSE Normalize(Append(base, Head(segs)), Tail(segs))

\* path.resolve(from, str): the location an absolute or relative path string
\* names.
Resolve(from, str) ==
    IF IsAbsolute(str) THEN Normalize(<<>>, Segs(str))
    ELSE Normalize(from, Segs(str))

\* The string of a location, as path.resolve returns it: "/" for the root,
\* otherwise "/name" for every name.
RECURSIVE PathStr(_)
PathStr(loc) ==
    IF loc = <<>> THEN <<"/">>
    ELSE IF Len(loc) = 1 THEN <<"/", loc[1]>>
    ELSE <<"/", Head(loc)>> \o PathStr(Tail(loc))

\* A slip of safePath: the working directory is left out of the resolution.
safePathNoCwd(inputPath) == Resolve(<<>>, inputPath)

safePath(inputPath) == Resolve(Cwd, inputPath)

-----------------------------------------------------------------------------
(* The filesystem: node:fs/promises on a tree of directories and files *)

\* The locations the model's filesystem has a node for (present or absent).
FsLocs ==
    { <<>>, <<"w">>, <<"w", "README.md">>, <<"w", "a.txt">>, <<"w", "d">>,
      <<"w", "d", "b.ts">>, <<"w", "d", "big.bin">>, <<"w", "nope">>,
      <<"w", "nope", "c.txt">> }

NoNode == [kind |-> "none", content |-> <<>>]
DirNode == [kind |-> "dir", content |-> <<>>]
FileNode(content) == [kind |-> "file", content |-> content]

KindAt(f, loc) == IF loc \in DOMAIN f THEN f[loc].kind ELSE "none"

\* The errno of walking to loc: a missing name is ENOENT, a file on the way is
\* ENOTDIR, "" when loc exists.
RECURSIVE WalkErr(_, _, _)
WalkErr(f, loc, i) ==
    IF i > Len(loc) THEN ""
    ELSE LET k == KindAt(f, SubSeq(loc, 1, i - 1))
         IN  IF k = "none" THEN "ENOENT"
             ELSE IF k = "file" THEN "ENOTDIR"
             ELSE WalkErr(f, loc, i + 1)

LookupErr(f, loc) ==
    LET e == WalkErr(f, loc, 1)
    IN  IF e /= "" THEN e
        ELSE IF KindAt(f, loc) = "none" THEN "ENOENT"
        ELSE ""

ErrnoText(code) ==
    CASE code = "ENOENT" -> "ENOENT: no such file or directory"
      [] code = "ENOTDIR" -> "ENOTDIR: not a directory"
      [] code = "EISDIR" -> "EISDIR: illegal operation on a directory"
      [] code = "EEXIST" -> "EEXIST: file already exists"
      [] OTHER -> code

\* NodeJS.ErrnoException.message of a failed call on the path string str:
\* "<errno text>, <syscall> '<path>'".
ErrnoMessage(code, syscall, str) ==
    <<ErrnoText(code), ", ", syscall, " '">> \o str \o <<"'">>

\* The location the operating system resolves a path string to; the handlers
\* pass strings path.resolve has normalised, the resource reader the string
\* that follows "file://".
OsLoc(str) == Resolve(Cwd, str)

\* 512 * 1024: the size from which the resource reader takes a file of
\* unknown extension for binary.
BlobThreshold == 524288

\* The bytes of a content token: "BIG" stands for a run of 512 * 1024 bytes,
\* "BIG-1" for a run one byte shorter, every other token for one byte.
TokenBytes(tok) ==
    CASE tok = "BIG" -> BlobThreshold
      [] tok = "BIG-1" -> BlobThreshold - 1
      [] OTHER -> 1

RECURSIVE ByteLen(_)
ByteLen(content) ==
    IF content = <<>> THEN 0 ELSE TokenBytes(Head(content)) + ByteLen(Tail(content))

\* fs.stat(str): [err, kind, size].
FsStat(f, str) ==
    LET loc == OsLoc(str)
        e == IF str = <<>> THEN "ENOENT" ELSE LookupErr(f, loc)
    IN  IF e /= "" THEN [err |-> e, kind |-> "none", size |-> 0]
        ELSE [err |-> "", kind |-> f[loc].kind, size |-> ByteLen(f[loc].content)]

\* fs.access(str): the errno, "" when the path can be reached.
FsAccess(f, str) == FsStat(f, str).err

\* fs.readFile(str): [err, content].  A directory opens and fails on read.
FsReadFile(f, str) ==
    LET st == FsStat(f, str)
    IN  IF st.err /= "" THEN [err |-> st.err, content |-> <<>>]
        ELSE IF st.kind = "dir" THEN [err |-> "EISDIR", content |-> <<>>]
        ELSE [err |-> "", content |-> f[OsLoc(str)].content]

\* The names of the directory at loc, in the order readdir reports them.
NameOrder ==
    <<".cache", ".env", ".git", "README.md", "__pycache__", "a.txt", "b.ts", "big.bin",
      "c.txt", "d", "dist", "node_modules", "nope", "package.json", "raw",
      "tsconfig.json", "w">>

RECURSIVE EntriesFrom(_, _, _)
EntriesFrom(f, loc, i) ==
    IF i > Len(NameOrder) THEN <<>>
    ELSE LET child == Append(loc, NameOrder[i])
         IN  (IF KindAt(f, child) /= "none"
                 THEN <<[name |-> NameOrder[i], kind |-> f[child].kind]>>
                 ELSE <<>>)
             \o EntriesFrom(f, loc, i + 1)

\* fs.readdir(str, {withFileTypes: true}): [err, entries].
FsReaddir(f, str) ==
    LET st == FsStat(f, str)
    IN  IF st.err /= "" THEN [err |-> st.err, entries |-> <<>>]
        ELSE IF st.kind /= "dir" THEN [err |-> "ENOTDIR", entries |-> <<>>]
        ELSE [err |-> "", entries |-> EntriesFrom(f, OsLoc(str), 1)]

\* The errno of creating the directories down to loc: a file on the way (or
\* at loc) refuses.
RECURSIVE MkdirErr(_, _, _)
MkdirErr(f, loc, i) ==
    IF i > Len(loc) THEN ""
    ELSE LET k == KindAt(f, SubSeq(loc, 1, i))
         IN  IF k = "file" THEN (IF i = Len(loc) THEN "EEXIST" ELSE "ENOTDIR")
             ELSE MkdirErr(f, loc, i + 1)

\* fs.mkdir(str, {recursive: true}): [err, fs]; every missing directory on
\* the way is created, an existing directory is left as it is.
FsMkdirp(f, str) ==
    LET loc == OsLoc(str)
        e == MkdirErr(f, loc, 1)
    IN  IF e /= "" THEN [err |-> e, fs |-> f]
        ELSE [err |-> "",
              fs |-> [l \in DOMAIN f |->
                        IF /\ Len(l) <= Len(loc)
                           /\ l = SubSeq(loc, 1, Len(l))
                           /\ f[l].kind = "none"
                        THEN DirNode ELSE f[l]]]

\* The errno of opening the path string for writing.
OpenWriteErr(f, str) ==
    LET loc == OsLoc(str)
        e == WalkErr(f, loc, 1)
    IN  IF e /= "" THEN e
        ELSE IF KindAt(f, loc) = "dir" THEN "EISDIR"
        ELSE ""

\* fs.writeFile(str, content): [err, fs]; the file is created or truncated.
FsWriteFile(f, str, content) ==
    LET e == OpenWriteErr(f, str)
    IN  IF e /= "" THEN [err |-> e, fs |-> f]
        ELSE [err |-> "", fs |-> [f EXCEPT ![OsLoc(str)] = FileNode(content)]]

\* An appendFile that truncates the file as writeFile does.
FsAppendTruncates(f, str, content) == FsWriteFile(f, str, content)

\* fs.appendFile(str, content): [err, fs]; the file is created when absent.
FsAppendFile(f, str, content) ==
    LET e == OpenWriteErr(f, str)
        loc == OsLoc(str)
    IN  IF e /= "" THEN [err |-> e, fs |-> f]
        ELSE [err |-> "",
              fs |-> [f EXCEPT ![loc] = FileNode(f[loc].content \o content)]]

\* An unlink that succeeds when there is nothing to remove.
FsUnlinkForce(f, str) ==
    IF KindAt(f, OsLoc(str)) = "dir" THEN [err |-> "EISDIR", fs |-> f]
    ELSE [err |-> "", fs |-> [f EXCEPT ![OsLoc(str)] = NoNode]]

\* An unlink that reports success and removes nothing.
FsUnlinkKeeps(f, str) == [err |-> "", fs |-> f]

\* fs.unlink(str): [err, fs].
FsUnlink(f, str) ==
    LET st == FsStat(f, str)
    IN  IF st.err /= "" THEN [err |-> st.err, fs |-> f]
        ELSE IF st.kind = "dir" THEN [err |-> "EISDIR", fs |-> f]
        ELSE [err |-> "", fs |-> [f EXCEPT ![OsLoc(str)] = NoNode]]

-----------------------------------------------------------------------------
(* Argument mappings and tool results: tools.ts *)

\* An argument value as it arrives in the request: a string (token sequence),
\* a number or a boolean.
StrVal(str) == [t |-> "string", s |-> str, n |-> 0, b |-> FALSE, half |-> FALSE]
\* A number is n, or n + 1/2 when half is set.
NumVal(num) == [t |-> "number", s |-> <<>>, n |-> num, b |-> FALSE, half |-> FALSE]
NumHalf(num) == [t |-> "number", s |-> <<>>, n |-> num, b |-> FALSE, half |-> TRUE]

\* count >= num, for a count that is an integer.
AtLeast(count, num) == IF num.half THEN count > num.n ELSE count >= num.n
BoolVal(bool) == [t |-> "boolean", s |-> <<>>, n |-> 0, b |-> bool, half |-> FALSE]

\* The empty argument mapping, and a mapping with one more key.
NoArgs == [k \in {} |-> StrVal(<<>>)]
With(args, key, val) ==
    [k \in DOMAIN args \cup {key} |-> IF k = key THEN val ELSE args[k]]

Has(args, key) == key \in DOMAIN args

\* ok(text): a result without the isError key.
ok(text) == [content |-> <<[type |-> "text", text |-> text]>>, isError |-> FALSE]

\* A slip of err: the isError key is left out.
errUnflagged(message) ==
    [content |-> <<[type |-> "text", text |-> <<"ERROR: ">> \o message]>>,
     isError |-> FALSE]

\* err(message): "ERROR: <message>" with isError: true.
err(message) ==
    [content |-> <<[type |-> "text", text |-> <<"ERROR: ">> \o message]>>,
     isError |-> TRUE]

\* What one step of a handler leaves: the next step ("ret" once it returned),
\* the filesystem, the handler's locals and, once it returned, its result.
Goto(pc, f, tmp) == [pc |-> pc, fs |-> f, tmp |-> tmp, out |-> <<>>]
Return(f, result) == [pc |-> "ret", fs |-> f, tmp |-> 0, out |-> <<result>>]

\* (n / 1024).toFixed(digits), kept symbolic.
SizeKB(n, digits) == <<ToString(n), "/1024 toFixed ", ToString(digits)>>

\* Buffer.toString("base64") of a content, kept symbolic.
Base64(content) == <<"base64(">> \o content \o <<")">>

-----------------------------------------------------------------------------
(* Tool: read_file *)

readFileHandler(pc, args, tmp, f) ==
    LET filePath == PathStr(safePath(args["path"].s))
        encoding == IF Has(args, "encoding") THEN args["encoding"].s ELSE <<"utf8">>
    IN  IF pc = "stat"
        THEN LET stats == FsStat(f, filePath)
             IN  IF stats.err /= ""
                 THEN Return(f, err(<<"Could not read file: ">>
                                    \o ErrnoMessage(stats.err, "stat", filePath)))
                 ELSE IF stats.kind = "dir"
                 THEN Return(f, err(<<"'">> \o filePath
                                    \o <<"' is a directory. Use list_directory instead.">>))
                 ELSE Goto("read", f, stats.size)
        ELSE LET rd == FsReadFile(f, filePath)
             IN  IF rd.err /= ""
                 THEN Return(f, err(<<"Could not read file: ">>
                        \o (IF rd.err = "EISDIR"
                            THEN <<ErrnoText(rd.err), ", ", "read">>
                            ELSE ErrnoMessage(rd.err, "open", filePath))))
                 ELSE Return(f, ok(<<"File: ">> \o filePath \o <<"\nSize: ">>
                        \o SizeKB(tmp, 2) \o <<" KB\nEncoding: ">> \o encoding
                        \o <<"\n\n--- Content ---\n">>
                        \o (IF encoding = <<"base64">> THEN Base64(rd.content)
                            ELSE rd.content)))

-----------------------------------------------------------------------------
(* Tool: write_file *)

\* path.dirname of a location's string.
Dirname(loc) == IF loc = <<>> THEN <<>> ELSE Front(loc)

writeFileHandler(pc, args, tmp, f) ==
    LET loc == safePath(args["path"].s)
        filePath == PathStr(loc)
        content == args["content"].s
        append == IF Has(args, "append") THEN args["append"].b ELSE FALSE
    IN  IF pc = "mkdir"
        THEN LET mk == FsMkdirp(f, PathStr(Dirname(loc)))
             IN  IF mk.err /= ""
                 THEN Return(f, err(<<"Could not write file: ">>
                        \o ErrnoMessage(mk.err, "mkdir", PathStr(Dirname(loc)))))
                 ELSE Goto("write", mk.fs, 0)
        ELSE LET wr == IF append THEN FsAppendFile(f, filePath, content)
                       ELSE FsWriteFile(f, filePath, content)
             IN  IF wr.err /= ""
                 THEN Return(f, err(<<"Could not write file: ">>
                        \o ErrnoMessage(wr.err, "open", filePath)))
                 ELSE Return(wr.fs,
                        ok(<<(IF append THEN "Appended " ELSE "Wrote "),
                             ToString(Len(content)), " characters to '">>
                           \o filePath \o <<"'.">>))

-----------------------------------------------------------------------------
(* Tool: list_directory *)

\* path.relative(baseDir, fullPath) for a location below baseDir.
RelStr(base, loc) ==
    LET rest == SubSeq(loc, Len(base) + 1, Len(loc))
    IN  Join([i \in 1..Len(rest) |-> <<rest[i]>>], "/")

\* collectEntries: the lines of a directory's entries, depth first when
\* recursive.  A failing readdir throws: [err, lines].
RECURSIVE collectEntries(_, _, _, _, _)
RECURSIVE collectLoop(_, _, _, _, _, _, _)
collectEntries(f, baseDir, currentDir, recursive, lines) ==
    LET rd == FsReaddir(f, PathStr(currentDir))
    IN  IF rd.err /= "" THEN [err |-> rd.err, at |-> currentDir, lines |-> lines]
        ELSE collectLoop(f, baseDir, currentDir, recursive, lines, rd.entries, 1)

collectLoop(f, baseDir, currentDir, recursive, lines, entries, i) ==
    IF i > Len(entries) THEN [err |-> "", at |-> currentDir, lines |-> lines]
    ELSE LET entry == entries[i]
             fullPath == Append(currentDir, entry.name)
             relativePath == RelStr(baseDir, fullPath)
         IN  IF entry.kind = "dir"
             THEN LET l1 == Append(lines, <<"[DIR]  ">> \o relativePath \o <<"/">>)
                      sub == IF recursive
                             THEN collectEntries(f, baseDir, fullPath, recursive, l1)
                             ELSE [err |-> "", at |-> fullPath, lines |-> l1]
                  IN  IF sub.err /= "" THEN sub
                      ELSE collectLoop(f, baseDir, currentDir, recursive,
                                       sub.lines, entries, i + 1)
             ELSE LET stat == FsStat(f, PathStr(fullPath))
                      line == <<"[FILE] ">> \o relativePath \o <<" ">>
                              \o SizeKB(stat.size, 1) \o <<" KB  ", "mtime">>
                  IN  collectLoop(f, baseDir, currentDir, recursive,
                                  Append(lines, line), entries, i + 1)

listDirectoryHandler(pc, args, tmp, f) ==
    LET loc == safePath(args["path"].s)
        dirPath == PathStr(loc)
        recursive == IF Has(args, "recursive") THEN args["recursive"].b ELSE FALSE
    IN  IF pc = "stat"
        THEN LET stats == FsStat(f, dirPath)
             IN  IF stats.err /= ""
                 THEN Return(f, err(<<"Could not list directory: ">>
                        \o ErrnoMessage(stats.err, "stat", dirPath)))
                 ELSE IF stats.kind /= "dir"
                 THEN Return(f, err(<<"'">> \o dirPath
                        \o <<"' is not a directory. Use read_file to read files.">>))
                 ELSE Goto("collect", f, 0)
        ELSE LET got == collectEntries(f, loc, loc, recursive,
                                       << <<"Directory: ">> \o dirPath \o <<"\n">> >>)
             IN  IF got.err /= ""
                 THEN Return(f, err(<<"Could not list directory: ">>
                        \o ErrnoMessage(got.err, "scandir", PathStr(got.at))))
                 ELSE Return(f, ok(Join(
                        Append(got.lines,
                               <<"\nTotal entries: ", ToString(Len(got.lines) - 1)>>),
                        "\n")))

-----------------------------------------------------------------------------
(* Tool: search_files *)

\* The characters of the names of the modelled tree.
Chars(name) ==
    CASE name = "README.md" -> <<"R", "E", "A", "D", "M", "E", ".", "m", "d">>
      [] name = "a.txt" -> <<"a", ".", "t", "x", "t">>
      [] name = "b.ts" -> <<"b", ".", "t", "s">>
      [] name = "c.txt" -> <<"c", ".", "t", "x", "t">>
      [] name = "big.bin" -> <<"b", "i", "g", ".", "b", "i", "n">>
      [] name = "nope" -> <<"n", "o", "p", "e">>
      [] OTHER -> <<name>>

\* String.prototype.toLowerCase on one character.
Lower(c) ==
    CASE c = "R" -> "r" [] c = "E" -> "e" [] c = "A" -> "a"
      [] c = "D" -> "d" [] c = "M" -> "m" [] c = "T" -> "t" [] c = "S" -> "s"
      [] OTHER -> c

\* The characters the handler escapes: /[.+^${}()|[\]\\]/.
Escaped == {".", "+", "^", "$", "{", "}", "(", ")", "|", "[", "]", "\\"}

\* new RegExp(regexStr, "i") of the escaped pattern with every "*" made ".*":
\* [ok, items].  An escaped or plain character is a literal, "*" is any run of
\* characters; "?" is left as it is and so is a quantifier: after a literal
\* it makes the literal optional, after a quantifier it makes that
\* quantifier lazy, and anywhere else the pattern is a syntax error.
RECURSIVE RegexParse(_, _, _, _)
RegexParse(pattern, i, items, state) ==
    IF i > Len(pattern) THEN [ok |-> TRUE, items |-> items]
    ELSE LET c == pattern[i]
         IN  IF c = "*"
                 THEN RegexParse(pattern, i + 1,
                        Append(items, [k |-> "star", c |-> "", opt |-> FALSE]), "quant")
             ELSE IF c = "?"
                 THEN IF state = "atom"
                         THEN RegexParse(pattern, i + 1,
                                [items EXCEPT ![Len(items)].opt = TRUE], "quant")
                      ELSE IF state = "quant"
                         THEN RegexParse(pattern, i + 1, items, "lazy")
                      ELSE [ok |-> FALSE, items |-> <<>>]
             ELSE RegexParse(pattern, i + 1,
                        Append(items, [k |-> "lit", c |-> c, opt |-> FALSE]), "atom")

RegexOf(pattern) == RegexParse(pattern, 1, <<>>, "start")

\* The items from the i-th on match at position j of chars.
RECURSIVE MatchFrom(_, _, _, _)
MatchFrom(items, i, chars, j) ==
    IF i > Len(items) THEN TRUE
    ELSE IF items[i].k = "star"
        THEN \E k \in j..(Len(chars) + 1) : MatchFrom(items, i + 1, chars, k)
    ELSE \/ /\ j <= Len(chars)
            /\ Lower(chars[j]) = Lower(items[i].c)
            /\ MatchFrom(items, i + 1, chars, j + 1)
         \/ /\ items[i].opt
            /\ MatchFrom(items, i + 1, chars, j)

\* regex.test(name): the regex is not anchored.
RegexTest(items, name) ==
    \E j \in 1..(Len(Chars(name)) + 1) : MatchFrom(items, 1, Chars(name), j)

\* The directories walkAndMatch does not descend into.
SkippedDirs == {"node_modules", ".git", "dist", ".cache"}

\* walkAndMatch: results with the matching files below dir appended, depth
\* first, until maxResults are held.  A failing readdir is swallowed.
RECURSIVE walkAndMatch(_, _, _, _, _)
RECURSIVE walkLoop(_, _, _, _, _, _, _)
walkAndMatch(f, dir, items, results, maxResults) ==
    IF AtLeast(Len(results), maxResults) THEN results
    ELSE LET rd == FsReaddir(f, PathStr(dir))
         IN  IF rd.err /= "" THEN results
             ELSE walkLoop(f, dir, items, results, maxResults, rd.entries, 1)

walkLoop(f, dir, items, results, maxResults, entries, i) ==
    IF i > Len(entries) \/ AtLeast(Len(results), maxResults) THEN results
    ELSE LET entry == entries[i]
             fullPath == Append(dir, entry.name)
             next == IF entry.kind = "dir"
                     THEN IF entry.name \in SkippedDirs THEN results
                          ELSE walkAndMatch(f, fullPath, items, results, maxResults)
                     ELSE IF RegexTest(items, entry.name)
                          THEN Append(results, PathStr(fullPath))
                          ELSE results
         IN  walkLoop(f, dir, items, next, maxResults, entries, i + 1)

\* maxResults when the argument is absent.
DefaultMaxResults == 50

searchFilesHandler(pc, args, tmp, f) ==
    LET loc == safePath(args["directory"].s)
        searchDir == PathStr(loc)
        pattern == args["pattern"].s
        maxResults == IF Has(args, "maxResults") THEN args["maxResults"]
                      ELSE NumVal(DefaultMaxResults)
        regex == RegexOf(pattern)
    IN  IF ~regex.ok
        THEN Return(f, err(<<"Search failed: ", "Invalid regular expression: /">>
                           \o pattern \o <<"/: Nothing to repeat">>))
        ELSE LET results == walkAndMatch(f, loc, regex.items, <<>>, maxResults)
             IN  IF Len(results) = 0
                 THEN Return(f, ok(<<"No files matching '">> \o pattern
                        \o <<"' found in '">> \o searchDir \o <<"'.">>))
                 ELSE Return(f, ok(<<"Found ", ToString(Len(results)),
                                     " match(es) for '">> \o pattern
                        \o <<"' in '">> \o searchDir \o <<"':\n">>
                        \o Join([i \in 1..Len(results) |-> <<"  ">> \o results[i]],
                                "\n")))

-----------------------------------------------------------------------------
(* Tool: get_file_info *)

\* path.extname of a location's string, lower-cased.
ExtOf(loc) ==
    IF loc = <<>> THEN ""
    ELSE LET name == Last(loc)
         IN  CASE name = "README.md" -> ".md"
               [] name \in {"a.txt", "c.txt"} -> ".txt"
               [] name = "b.ts" -> ".ts"
               [] name = "big.bin" -> ".bin"
               [] OTHER -> ""

guessMime(loc) ==
    LET ext == ExtOf(loc)
    IN  CASE ext = ".ts" -> "text/typescript"
          [] ext = ".md" -> "text/markdown"
          [] ext = ".txt" -> "text/plain"
          [] OTHER -> "application/octet-stream"

getFileInfoHandler(pc, args, tmp, f) ==
    LET loc == safePath(args["path"].s)
        filePath == PathStr(loc)
        stats == FsStat(f, filePath)
    IN  IF stats.err /= ""
        THEN Return(f, err(<<"Could not stat path: ">>
                           \o ErrnoMessage(stats.err, "stat", filePath)))
        ELSE Return(f, ok(Join(
                << <<"Path:           ">> \o filePath,
                   <<"Type:           ",
                     (IF stats.kind = "dir" THEN "directory" ELSE "file")>>,
                   <<"MIME (guessed): ", guessMime(loc)>>,
                   <<"Size:           ", ToString(stats.size), " bytes  (">>
                       \o SizeKB(stats.size, 2) \o <<" KB)">>,
                   <<"Created:        ", "birthtime">>,
                   <<"Modified:       ", "mtime">>,
                   <<"Accessed:       ", "atime">>,
                   <<"Permissions:    ", "mode", " (octal)">> >>,
                "\n")))

-----------------------------------------------------------------------------
(* Tool: delete_file *)

deleteFileHandler(pc, args, tmp, f) ==
    LET filePath == PathStr(safePath(args["path"].s))
    IN  IF pc = "stat"
        THEN LET stats == FsStat(f, filePath)
             IN  IF stats.err /= ""
                 THEN Return(f, err(<<"Could not delete file: ">>
                        \o ErrnoMessage(stats.err, "stat", filePath)))
                 ELSE IF stats.kind = "dir"
                 THEN Return(f, err(<<"'">> \o filePath
                        \o <<"' is a directory. This tool only deletes files.">>))
                 ELSE Goto("unlink", f, 0)
        ELSE LET ul == FsUnlink(f, filePath)
             IN  IF ul.err /= ""
                 THEN Return(f, err(<<"Could not delete file: ">>
                        \o ErrnoMessage(ul.err, "unlink", filePath)))
                 ELSE Return(ul.fs, ok(<<"Deleted file: '">> \o filePath \o <<"'.">>))

-----------------------------------------------------------------------------
(* ALL_TOOLS: the handler catalog of tools.ts *)

ALL_TOOLS ==
    <<"read_file", "write_file", "list_directory", "search_files",
      "get_file_info", "delete_file">>

\* The step a handler starts with.
FirstPc(name) ==
    CASE name \in {"read_file", "list_directory", "get_file_info", "delete_file"} -> "stat"
      [] name = "write_file" -> "mkdir"
      [] name = "search_files" -> "walk"

\* One step of the handler of the tool definition called name.
ToolStep(name, pc, args, tmp, f) ==
    CASE name = "read_file" -> readFileHandler(pc, args, tmp, f)
      [] name = "write_file" -> writeFileHandler(pc, args, tmp, f)
      [] name = "list_directory" -> listDirectoryHandler(pc, args, tmp, f)
      [] name = "search_files" -> searchFilesHandler(pc, args, tmp, f)
      [] name = "get_file_info" -> getFileInfoHandler(pc, args, tmp, f)
      [] name = "delete_file" -> deleteFileHandler(pc, args, tmp, f)

\* A catalog in which every tool requires its path and nothing else.
ToolRequiredPathOnly(name) == {"path"}

\* inputSchema of each tool definition: the required keys and the JSON type of
\* every property.
ToolRequired(name) ==
    CASE name \in {"read_file", "list_directory", "get_file_info", "delete_file"} -> {"path"}
      [] name = "write_file" -> {"path", "content"}
      [] name = "search_files" -> {"directory", "pattern"}

ToolProperties(name) ==
    CASE name = "read_file" -> [path |-> "string", encoding |-> "string"]
      [] name = "write_file" -> [path |-> "string", content |-> "string", append |-> "boolean"]
      [] name = "list_directory" -> [path |-> "string", recursive |-> "boolean"]
      [] name = "search_files" ->
            [directory |-> "string", pattern |-> "string", maxResults |-> "number"]
      [] name \in {"get_file_info", "delete_file"} -> [path |-> "string"]

\* The enum of a property of a tool definition, {} when it has none.
ToolEnum(name, key) ==
    IF name = "read_file" /\ key = "encoding" THEN {<<"utf8">>, <<"base64">>} ELSE {}

-----------------------------------------------------------------------------
(* Resources: resources.ts *)

\* A URI is the token sequence of its scheme prefix and the string after it:
\* "file:///w/a.txt" is <<"file://", "/", "w", "/", "a.txt">>.
FileUri(str) == <<"file://">> \o str

\* The files buildStaticResources looks for in the working directory.
\* A candidate list that names README.md twice.
candidatesWithDuplicate ==
    << [file |-> "README.md", mime |-> "text/markdown"],
       [file |-> "package.json", mime |-> "application/json"],
       [file |-> "README.md", mime |-> "text/markdown"],
       [file |-> ".env", mime |-> "text/plain"] >>

candidates ==
    << [file |-> "README.md", mime |-> "text/markdown"],
       [file |-> "package.json", mime |-> "application/json"],
       [file |-> "tsconfig.json", mime |-> "application/json"],
       [file |-> ".env", mime |-> "text/plain"] >>

\* buildStaticResources(): the candidates fs.access reaches, in their order,
\* then the working directory.
RECURSIVE staticsFrom(_, _)
staticsFrom(f, i) ==
    IF i > Len(candidates) THEN <<>>
    ELSE LET fullPath == PathStr(Append(Cwd, candidates[i].file))
         IN  (IF FsAccess(f, fullPath) = ""
                 THEN <<[uri |-> FileUri(fullPath), name |-> candidates[i].file,
                         mimeType |-> candidates[i].mime]>>
                 ELSE <<>>)
             \o staticsFrom(f, i + 1)

buildStaticResources(f) ==
    Append(staticsFrom(f, 1),
           [uri |-> FileUri(PathStr(Cwd) \o <<"/">>), name |-> "Working Directory",
            mimeType |-> "text/plain"])

\* buildDirectoryListing(dirPath): [err, text]; the header line, then one
\* line for every entry, joined by line breaks.
RECURSIVE listingLines(_, _)
listingLines(entries, i) ==
    IF i > Len(entries) THEN <<>>
    ELSE << <<(IF entries[i].kind = "dir" THEN "[DIR] " ELSE "[FILE]"), "  ",
              entries[i].name>> >>
         \o listingLines(entries, i + 1)

buildDirectoryListing(f, dirPath) ==
    LET rd == FsReaddir(f, dirPath)
    IN  IF rd.err /= "" THEN [err |-> rd.err, text |-> <<>>]
        ELSE [err |-> "",
              text |-> Join(<< <<"Directory listing: ">> \o dirPath \o <<"\n">> >>
                            \o listingLines(rd.entries, 1), "\n")]

\* The extensions the reader takes for text whatever the size.
textMimes ==
    {".ts", ".tsx", ".js", ".mjs", ".json", ".md", ".txt", ".html", ".css",
     ".yaml", ".yml", ".toml", ".csv", ".sh", ".py", ".rs", ".go", ".xml", ".env"}

\* A reader that takes a file of exactly 512 * 1024 bytes for text.
IsTextualInclusive(ext, size) == ext \in textMimes \/ size <= BlobThreshold

\* textMimes.has(ext) || stats.size < 512 * 1024
IsTextual(ext, size) == ext \in textMimes \/ size < BlobThreshold

\* A ResourceContent: text and blob are each absent (<<>>) or set (<<value>>).
TextContent(uri, text) ==
    [uri |-> uri, mimeType |-> "text/plain", text |-> <<text>>, blob |-> <<>>]

\* A slip of the directory branch: the listing handed out as a blob.
ListingAsBlob(uri, text) ==
    [uri |-> uri, mimeType |-> "application/octet-stream", text |-> <<>>,
     blob |-> <<Base64(text)>>]

\* The content the directory branches return.
ListingContent(uri, text) == TextContent(uri, text)

BlobContent(uri, content) ==
    [uri |-> uri, mimeType |-> "application/octet-stream", text |-> <<>>,
     blob |-> <<Base64(content)>>]

\* What one step of readResource leaves: the next step, or the content it
\* returned, or the message of the Error it threw.
RGoto(pc) == [pc |-> pc, out |-> <<>>, thrown |-> <<>>]
RReturn(content) == [pc |-> "ret", out |-> <<content>>, thrown |-> <<>>]
\* A reader that returns the message of a failure as the text of the resource.
RThrowAsText(message) == RReturn(TextContent(<<"file://">>, message))

RThrow(message) == [pc |-> "ret", out |-> <<>>, thrown |-> <<message>>]

CannotRead(uri, message) ==
    RThrow(<<"Cannot read resource '">> \o uri \o <<"': ">> \o message)

readResource(pc, uri, f) ==
    LET rawPath == Tail(uri)
    IN  IF pc = "start"
        THEN IF Head(uri) /= "file://"
             THEN RThrow(<<"Unsupported URI scheme. Only 'file://' URIs are supported.">>)
             ELSE IF rawPath /= <<>> /\ Last(rawPath) = "/"
             THEN LET dirPath == IF Front(rawPath) = <<>> THEN <<"/">>
                                 ELSE Front(rawPath)
                      ls == buildDirectoryListing(f, dirPath)
                  IN  IF ls.err /= ""
                      THEN RThrow(ErrnoMessage(ls.err, "scandir", dirPath))
                      ELSE RReturn(ListingContent(uri, ls.text))
             ELSE LET stats == FsStat(f, rawPath)
                  IN  IF stats.err /= ""
                      THEN CannotRead(uri, ErrnoMessage(stats.err, "stat", rawPath))
                      ELSE IF stats.kind = "dir" THEN RGoto("list")
                      ELSE IF IsTextual(ExtOf(OsLoc(rawPath)), stats.size)
                      THEN RGoto("text")
                      ELSE RGoto("blob")
        ELSE IF pc = "list"
        THEN LET ls == buildDirectoryListing(f, rawPath)
             IN  IF ls.err /= ""
                 THEN CannotRead(uri, ErrnoMessage(ls.err, "scandir", rawPath))
                 ELSE RReturn(ListingContent(uri, ls.text))
        ELSE LET rd == FsReadFile(f, rawPath)
             IN  IF rd.err /= ""
                 THEN CannotRead(uri,
                        IF rd.err = "EISDIR" THEN <<ErrnoText(rd.err), ", ", "read">>
                        ELSE ErrnoMessage(rd.err, "open", rawPath))
                 ELSE IF pc = "text" THEN RReturn(TextContent(uri, rd.content))
                 ELSE RReturn(BlobContent(uri, rd.content))

\* The resource callbacks of index.ts: the contents of a read result.
ReadCallbackResult(content) ==
    IF content.blob /= <<>>
    THEN [contents |-> <<[uri |-> content.uri, mimeType |-> content.mimeType,
                          text |-> <<>>, blob |-> content.blob]>>]
    ELSE [contents |-> <<[uri |-> content.uri, mimeType |-> content.mimeType,
                          text |-> (IF content.text = <<>> THEN << <<>> >>
                                    ELSE content.text),
                          blob |-> <<>>]>>]

-----------------------------------------------------------------------------
(* index.ts: what is registered, and the schemas the arguments are validated
   against *)

\* A slip of the module's top level: delete_file is registered by main(),
\* after the transport is connected, and not here.
IndexScriptWithoutDelete ==
    << [op |-> "tool", name |-> "read_file"],
       [op |-> "tool", name |-> "write_file"],
       [op |-> "tool", name |-> "list_directory"],
       [op |-> "tool", name |-> "search_files"],
       [op |-> "tool", name |-> "get_file_info"],
       [op |-> "prompt", name |-> "review-file"],
       [op |-> "prompt", name |-> "summarize-directory"],
       [op |-> "prompt", name |-> "find-and-explain"] >>

\* The registerTool and registerPrompt calls of the module's top level.
IndexScript ==
    << [op |-> "tool", name |-> "read_file"],
       [op |-> "tool", name |-> "write_file"],
       [op |-> "tool", name |-> "list_directory"],
       [op |-> "tool", name |-> "search_files"],
       [op |-> "tool", name |-> "get_file_info"],
       [op |-> "tool", name |-> "delete_file"],
       [op |-> "prompt", name |-> "review-file"],
       [op |-> "prompt", name |-> "summarize-directory"],
       [op |-> "prompt", name |-> "find-and-explain"] >>

\* A zod field: z.string(), z.number(), z.boolean() or z.enum([...]), required
\* unless .optional().
Field(type, optional, enum) == [type |-> type, optional |-> optional, enum |-> enum]

\* A slip of read_file's schema: .optional() left off encoding.
readFileSchemaStrict ==
    [path |-> Field("string", FALSE, {}),
     encoding |-> Field("string", FALSE, {<<"utf8">>, <<"base64">>})]

\* A slip of read_file's schema: path declared z.number().
readFileSchemaNumericPath ==
    [path |-> Field("number", FALSE, {}),
     encoding |-> Field("string", TRUE, {<<"utf8">>, <<"base64">>})]

\* inputSchema of registerTool("read_file", ...).
readFileSchema ==
    [path |-> Field("string", FALSE, {}),
     encoding |-> Field("string", TRUE, {<<"utf8">>, <<"base64">>})]

\* inputSchema of each registerTool call.
inputSchema(name) ==
    CASE name = "read_file" -> readFileSchema
      [] name = "write_file" ->
            [path |-> Field("string", FALSE, {}),
             content |-> Field("string", FALSE, {}),
             append |-> Field("boolean", TRUE, {})]
      [] name = "list_directory" ->
            [path |-> Field("string", FALSE, {}),
             recursive |-> Field("boolean", TRUE, {})]
      [] name = "search_files" ->
            [directory |-> Field("string", FALSE, {}),
             pattern |-> Field("string", FALSE, {}),
             maxResults |-> Field("number", TRUE, {})]
      [] name \in {"get_file_info", "delete_file"} ->
            [path |-> Field("string", FALSE, {})]

\* A slip of the review-file registration: its path is optional.
argsSchemaOptionalPath(name) ==
    CASE name = "review-file" ->
            [path |-> Field("string", TRUE, {}), focus |-> Field("string", TRUE, {})]
      [] name = "summarize-directory" -> [path |-> Field("string", FALSE, {})]
      [] name = "find-and-explain" ->
            [filename |-> Field("string", FALSE, {}),
             directory |-> Field("string", TRUE, {})]

\* argsSchema of each registerPrompt call.
argsSchema(name) ==
    CASE name = "review-file" ->
            [path |-> Field("string", FALSE, {}), focus |-> Field("string", TRUE, {})]
      [] name = "summarize-directory" -> [path |-> Field("string", FALSE, {})]
      [] name = "find-and-explain" ->
            [filename |-> Field("string", FALSE, {}),
             directory |-> Field("string", TRUE, {})]

\* The tool definition a registered tool's callback looks up in ALL_TOOLS and
\* hands the arguments to.
toolCallback(name) == name

\* Whether an argument mapping parses under a zod shape: every key of the
\* shape is absent only when optional, and has the field's type (and one of
\* the enum's values) when present.
ZodAccepts(shape, args) ==
    \A key \in DOMAIN shape :
        IF key \in DOMAIN args
        THEN /\ args[key].t = shape[key].type
             /\ shape[key].enum /= {} => args[key].s \in shape[key].enum
        ELSE shape[key].optional

\* The mapping the callback receives: the keys of the shape (zod strips the
\* others).
ZodParsed(shape, args) == [k \in DOMAIN args \cap DOMAIN shape |-> args[k]]

-----------------------------------------------------------------------------
(* The capability registry of the protocol core *)

EmptyRegistry == [tools |-> <<>>, prompts |-> <<>>, resources |-> <<>>, templates |-> <<>>]

Range(seq) == {seq[i] : i \in 1..Len(seq)}

\* registerTool(spec): [fault, registry].
registerTool(reg, name) ==
    IF name \in Range(reg.tools)
    THEN [fault |-> "DuplicateNameError", registry |-> reg]
    ELSE [fault |-> "", registry |-> [reg EXCEPT !.tools = Append(@, name)]]

\* registerPrompt(spec): [fault, registry].
registerPrompt(reg, name) ==
    IF name \in Range(reg.prompts)
    THEN [fault |-> "DuplicateNameError", registry |-> reg]
    ELSE [fault |-> "", registry |-> [reg EXCEPT !.prompts = Append(@, name)]]

\* registerResource(spec) for a static entry: [fault, registry].
registerResource(reg, res) ==
    IF \E i \in 1..Len(reg.resources) : reg.resources[i].uri = res.uri
    THEN [fault |-> "DuplicateUriError", registry |-> reg]
    ELSE [fault |-> "", registry |-> [reg EXCEPT !.resources = Append(@, res)]]

\* registerResource(spec) for a template: [fault, registry].
registerTemplate(reg, name, prefix) ==
    [fault |-> "",
     registry |-> [reg EXCEPT !.templates = Append(@, [name |-> name, prefix |-> prefix])]]

\* A slip of main's loop: no static entry is registered.
registerNothing(reg, entries, i) == [fault |-> "", registry |-> reg]

\* The entries of a sequence registered one after the other, up to the first
\* fault.
RECURSIVE registerAll(_, _, _)
registerAll(reg, entries, i) ==
    IF i > Len(entries) THEN [fault |-> "", registry |-> reg]
    ELSE LET r == registerResource(reg, entries[i])
         IN  IF r.fault /= "" THEN r ELSE registerAll(r.registry, entries, i + 1)

\* Whether a template of the form "<prefix>{variable}" matches a URI: the
\* prefix is there and the variable binds what follows it.
TemplateMatches(tpl, uri) == uri /= <<>> /\ Head(uri) = tpl.prefix /\ Tail(uri) /= <<>>

\* A slip of the lookup: an unknown name falls back to the first tool.
lookupToolOrFirst(reg, name) ==
    IF name \in Range(reg.tools) THEN <<name>> ELSE SubSeq(reg.tools, 1, 1)

\* lookup("tool", name): the registered tool of that name, <<>> when absent.
lookupTool(reg, name) == IF name \in Range(reg.tools) THEN <<name>> ELSE <<>>

\* resolveResource(uri): the static entry with exactly this URI, else the
\* first registered template that matches, else NotFoundError.
resolveResource(reg, uri) ==
    IF \E i \in 1..Len(reg.resources) : reg.resources[i].uri = uri
    THEN [fault |-> "", via |-> "static"]
    ELSE IF \E i \in 1..Len(reg.templates) : TemplateMatches(reg.templates[i], uri)
    THEN [fault |-> "", via |-> "template"]
    ELSE [fault |-> "NotFoundError", via |-> ""]

\* A server that declares every capability, whatever it registered.
CapabilitiesAll(reg) == {"tools", "prompts", "resources"}

\* The capabilities the server declares: those it has registrations for.
Capabilities(reg) ==
    (IF reg.tools /= <<>> THEN {"tools"} ELSE {})
    \cup (IF reg.prompts /= <<>> THEN {"prompts"} ELSE {})
    \cup (IF reg.resources /= <<>> \/ reg.templates /= <<>> THEN {"resources"} ELSE {})

-----------------------------------------------------------------------------
(* Prompts: prompts.ts *)

\* A generator whose try has no catch: the failure of a filesystem call
\* leaves it.
CatchNothing(errno) == errno

\* try { ... } catch { }: the failure of a filesystem call does not leave the
\* generator ("" for nothing thrown).
Catch(errno) == ""

\* A PromptMessage of role user.
UserMessage(text) == [role |-> "user", content |-> [type |-> "text", text |-> text]]

\* What a generator leaves: the messages it returns, or the errno it throws.
Generated(thrown, text) == [thrown |-> thrown, messages |-> <<UserMessage(text)>>]

\* reviewFilePrompt.generate(args): the messages; a file that cannot be read
\* is replaced by a note.
reviewFileGenerate(args, f) ==
    LET filePath == PathStr(Resolve(Cwd, IF Has(args, "path") THEN args["path"].s
                                         ELSE <<>>))
        focus == IF Has(args, "focus") THEN args["focus"].s ELSE <<"all">>
        rd == FsReadFile(f, filePath)
        fileContent == IF rd.err /= ""
                       THEN <<"(Could not read file - it may not exist or is binary)">>
                       ELSE rd.content
    IN  Generated(Catch(rd.err),
                  <<"Please perform a thorough code review of the following file.\n\n",
                    "**File:** ">> \o filePath
                  \o <<"\n**Review focus:** ">> \o focus
                  \o <<"\n\n--- File Content ---\n">> \o fileContent)

\* The walks of the prompts go on for ever.
TooDeepNever(depth, maxDepth) == FALSE

\* if (depth > maxDepth) return
TooDeep(depth, maxDepth) == depth > maxDepth

\* The depth buildTree is called with.
TreeMaxDepth == 3

\* The entries buildTree leaves out.
ignoredInTree == {"node_modules", ".git", "dist", ".cache", "__pycache__"}

\* "  ".repeat(depth)
Indent(depth) == [k \in 1..depth |-> "  "]

\* The lines held after a directory entry: its line, and the tree below it
\* when that is not empty; the failure of the walk below aborts.
TreeWithSub(acc, line, sub) ==
    IF sub.err /= "" THEN [err |-> sub.err, lines |-> acc.lines]
    ELSE [err |-> "",
          lines |-> Append(acc.lines, line)
                    \o (IF sub.text /= <<>> THEN <<sub.text>> ELSE <<>>)]

\* buildTree(base, dir, depth, maxDepth): [err, text], the lines of the
\* entries of dir and below, indented by depth, joined; a readdir that fails
\* is thrown.
RECURSIVE buildTree(_, _, _, _)
RECURSIVE treeLoop(_, _, _, _, _, _, _)
buildTree(f, dir, depth, maxDepth) ==
    IF TooDeep(depth, maxDepth) THEN [err |-> "", text |-> <<>>]
    ELSE LET rd == FsReaddir(f, PathStr(dir))
         IN  IF rd.err /= "" THEN [err |-> rd.err, text |-> <<>>]
             ELSE treeLoop(f, dir, depth, maxDepth, rd.entries, 1,
                           [err |-> "", lines |-> <<>>])

treeLoop(f, dir, depth, maxDepth, entries, i, acc) ==
    IF acc.err /= "" THEN [err |-> acc.err, text |-> <<>>]
    ELSE IF i > Len(entries) THEN [err |-> "", text |-> Join(acc.lines, "\n")]
    ELSE LET entry == entries[i]
             next == IF entry.name \in ignoredInTree THEN acc
                     ELSE IF entry.kind = "dir"
                     THEN TreeWithSub(acc, Indent(depth) \o <<entry.name, "/">>,
                                      buildTree(f, Append(dir, entry.name), depth + 1,
                                                maxDepth))
                     ELSE [err |-> "",
                           lines |-> Append(acc.lines, Indent(depth) \o <<entry.name>>)]
         IN  treeLoop(f, dir, depth, maxDepth, entries, i + 1, next)

\* The message of summarize-directory for the tree bt found below dirPath.
summarizeMessage(dirPath, bt) ==
    Generated(Catch(bt.err),
              <<"Please analyse the following project directory structure and provide:\n\n",
                "**Directory:** ">> \o dirPath
              \o <<"\n\n--- Directory Tree ---\n">>
              \o (IF bt.err /= "" THEN <<"(Could not read directory)">> ELSE bt.text))

\* summarizeDirectoryPrompt.generate(args)
summarizeDirectoryGenerate(args, f) ==
    LET dirLoc == Resolve(Cwd, IF Has(args, "path") THEN args["path"].s ELSE <<".">>)
    IN  summarizeMessage(PathStr(dirLoc), buildTree(f, dirLoc, 0, TreeMaxDepth))

\* The depth findFirst is called with.
FindMaxDepth == 5

\* The directories findFirst does not descend into.
ignoredInFind == {"node_modules", ".git", "dist"}

\* findFirst(dir, filename, depth, maxDepth): [err, found], found the path
\* of the first file called filename (<<>> for null); a readdir that fails
\* is thrown.
RECURSIVE findFirst(_, _, _, _, _)
RECURSIVE findLoop(_, _, _, _, _, _, _)
RECURSIVE findAfter(_, _, _, _, _, _, _, _)
findFirst(f, dir, filename, depth, maxDepth) ==
    IF TooDeep(depth, maxDepth) THEN [err |-> "", found |-> <<>>]
    ELSE LET rd == FsReaddir(f, PathStr(dir))
         IN  IF rd.err /= "" THEN [err |-> rd.err, found |-> <<>>]
             ELSE findLoop(f, dir, filename, depth, maxDepth, rd.entries, 1)

findLoop(f, dir, filename, depth, maxDepth, entries, i) ==
    IF i > Len(entries) THEN [err |-> "", found |-> <<>>]
    ELSE LET entry == entries[i]
             fullPath == Append(dir, entry.name)
         IN  IF entry.kind = "file" /\ <<entry.name>> = filename
             THEN [err |-> "", found |-> <<PathStr(fullPath)>>]
             ELSE IF entry.kind = "dir" /\ entry.name \notin ignoredInFind
             THEN findAfter(f, dir, filename, depth, maxDepth, entries, i,
                            findFirst(f, fullPath, filename, depth + 1, maxDepth))
             ELSE findLoop(f, dir, filename, depth, maxDepth, entries, i + 1)

\* if (found) return found; a throw of the walk below leaves the walk.
findAfter(f, dir, filename, depth, maxDepth, entries, i, sub) ==
    IF sub.err /= "" \/ sub.found /= <<>> THEN sub
    ELSE findLoop(f, dir, filename, depth, maxDepth, entries, i + 1)

\* The message of find-and-explain for what findFirst left.
explainMessage(filename, ff, f) ==
    LET foundPath == IF ff.err = "" THEN ff.found ELSE <<>>
        rd == IF foundPath /= <<>> THEN FsReadFile(f, foundPath[1])
              ELSE [err |-> "ENOENT", content |-> <<>>]
        fileContent == IF rd.err = "" THEN rd.content ELSE <<"(File not found)">>
    IN  Generated(Catch(IF ff.err /= "" THEN ff.err
                        ELSE IF foundPath /= <<>> THEN rd.err ELSE ""),
                  <<"I found the file ">>
                  \o (IF foundPath /= <<>> THEN foundPath[1] ELSE filename)
                  \o <<". Please explain what it does in plain English:\n\n",
                       "--- File Content ---\n">> \o fileContent)

\* findAndExplainPrompt.generate(args)
findAndExplainGenerate(args, f) ==
    LET filename == IF Has(args, "filename") THEN args["filename"].s ELSE <<>>
        searchDir == Resolve(Cwd, IF Has(args, "directory") THEN args["directory"].s
                                  ELSE <<".">>)
    IN  explainMessage(filename, findFirst(f, searchDir, filename, 0, FindMaxDepth), f)

\* The prompts of ALL_PROMPTS, in their order.
PromptNames == <<"review-file", "summarize-directory", "find-and-explain">>

\* The arguments each prompt definition declares as required.
PromptRequired(name) ==
    CASE name = "review-file" -> {"path"}
      [] name = "summarize-directory" -> {"path"}
      [] name = "find-and-explain" -> {"filename"}

\* The generator of the prompt definition called name.
promptGenerate(name, args, f) ==
    CASE name = "review-file" -> reviewFileGenerate(args, f)
      [] name = "summarize-directory" -> summarizeDirectoryGenerate(args, f)
      [] name = "find-and-explain" -> findAndExplainGenerate(args, f)

-----------------------------------------------------------------------------
(* The request dispatcher and the session of the protocol core *)

\* The protocol methods, and the capability each needs ("" for none).
MethodTable ==
    {"initialize", "tools/list", "tools/call", "resources/list", "resources/read",
     "prompts/list", "prompts/get"}

CapabilityOf(method) ==
    CASE method \in {"tools/list", "tools/call"} -> "tools"
      [] method \in {"resources/list", "resources/read"} -> "resources"
      [] method \in {"prompts/list", "prompts/get"} -> "prompts"
      [] OTHER -> ""

\* The payload of a result: a tool result, the contents of a resource, the
\* messages of a prompt, the names of a listing, or the server's capabilities.
Payload(kind, isError, content, contents, messages, names) ==
    [kind |-> kind, isError |-> isError, content |-> content, contents |-> contents,
     messages |-> messages, names |-> names]

\* A slip of the response writer: a result sent along with an error object.
ResultWithError(id, payload) ==
    [id |-> id, result |-> <<payload>>,
     error |-> <<[code |-> "InternalError", message |-> <<>>, fault |-> ""]>>]

\* A Response carrying a result.
ResultResponse(id, payload) == [id |-> id, result |-> <<payload>>, error |-> <<>>]

\* A Response carrying an error of a class.
ErrorResponse(id, code, message, fault) ==
    [id |-> id, result |-> <<>>,
     error |-> <<[code |-> code, message |-> message, fault |-> fault]>>]

\* Step 5 of dispatch: what a tool handler returned, as the result payload.
ToolPayload(result) == Payload("tool", result.isError, result.content, <<>>, <<>>, <<>>)

\* A request as the host sends it.
Req(method, name, args, uri) ==
    [method |-> method, name |-> name, args |-> args, uri |-> uri]

\* The host's record of a request: what was asked, how far the server is with
\* it (stage "run" while its handler runs, at step pc with locals tmp; "done"
\* once answered; "dropped" when its completion was discarded), the handler
\* invoked for it (calls) and the response received for it.
Entry(id, r, stage, pc, calls, via, resp) ==
    [id |-> id, method |-> r.method, name |-> r.name, args |-> r.args, uri |-> r.uri,
     stage |-> stage, pc |-> pc, tmp |-> 0, calls |-> calls, via |-> via, resp |-> resp]

Answered(id, r, response) == Entry(id, r, "done", "", "", "", <<response>>)
Running(id, r, pc, calls, via) == Entry(id, r, "run", pc, calls, via, <<>>)

\* new URL(uri).toString(): the dot segments of the path are resolved.
UrlToString(uri) ==
    IF uri /= <<>> /\ Head(uri) = "file://" /\ Tail(uri) /= <<>> /\ Head(Tail(uri)) = "/"
    THEN LET raw == Tail(uri)
             loc == Normalize(<<>>, Segs(raw))
         IN  <<"file://">> \o PathStr(loc)
             \o (IF Last(raw) = "/" /\ loc /= <<>> THEN <<"/">> ELSE <<>>)
    ELSE uri

\* A session that lets every method through before the handshake is over.
GatedNever(sess, method) == FALSE

\* The session's gate: until the handshake is over only initialize is let
\* through.
Gated(sess, method) == sess /= "Ready" /\ method /= "initialize"

\* Steps 1 to 5 of dispatch for a request that arrives with the session in
\* state sess: the host's record of it, answered at once or with its handler
\* started.
Dispatch(reg, sess, id, r) ==
    IF Gated(sess, r.method)
    THEN Answered(id, r, ErrorResponse(id, "InvalidRequest",
                        <<"Server not initialized">>, "ProtocolViolation"))
    ELSE IF r.method \notin MethodTable
    THEN Answered(id, r, ErrorResponse(id, "MethodNotFound",
                        <<"Method not found: ", r.method>>, ""))
    ELSE IF CapabilityOf(r.method) /= "" /\ CapabilityOf(r.method) \notin Capabilities(reg)
    THEN Answered(id, r, ErrorResponse(id, "MethodNotFound",
                        <<"Method not found: ", r.method>>, ""))
    ELSE IF r.method = "initialize"
    THEN Answered(id, r, ResultResponse(id,
            Payload("initialize", FALSE, <<>>, <<>>, <<>>,
                    SelectSeq(<<"tools", "resources", "prompts">>,
                              LAMBDA c : c \in Capabilities(reg)))))
    ELSE IF r.method = "tools/list"
    THEN Answered(id, r, ResultResponse(id,
            Payload("tools", FALSE, <<>>, <<>>, <<>>, reg.tools)))
    ELSE IF r.method = "prompts/list"
    THEN Answered(id, r, ResultResponse(id,
            Payload("prompts", FALSE, <<>>, <<>>, <<>>, reg.prompts)))
    ELSE IF r.method = "resources/list"
    THEN Answered(id, r, ResultResponse(id,
            Payload("resources", FALSE, <<>>, <<>>, <<>>,
                    [i \in 1..Len(reg.resources) |-> reg.resources[i].name])))
    ELSE IF r.method = "tools/call"
    THEN LET found == lookupTool(reg, r.name)
         IN  IF found = <<>>
             THEN Answered(id, r, ErrorResponse(id, "InvalidParams",
                            <<"Tool ", r.name, " not found">>, ""))
             ELSE IF ~ZodAccepts(inputSchema(found[1]), r.args)
             THEN Answered(id, r, ErrorResponse(id, "InvalidParams",
                            <<"Invalid arguments for tool ", r.name>>, ""))
             ELSE Running(id, [r EXCEPT !.args = ZodParsed(inputSchema(found[1]), r.args)],
                          FirstPc(toolCallback(found[1])), toolCallback(found[1]), "")
    ELSE IF r.method = "prompts/get"
    THEN IF r.name \notin Range(reg.prompts)
         THEN Answered(id, r, ErrorResponse(id, "InvalidParams",
                        <<"Prompt ", r.name, " not found">>, ""))
         ELSE IF ~ZodAccepts(argsSchema(r.name), r.args)
         THEN Answered(id, r, ErrorResponse(id, "InvalidParams",
                        <<"Invalid arguments for prompt ", r.name>>, ""))
         ELSE Running(id, [r EXCEPT !.args = ZodParsed(argsSchema(r.name), r.args)],
                      "generate", r.name, "")
    ELSE LET found == resolveResource(reg, r.uri)
         IN  IF found.fault /= ""
             THEN Answered(id, r, ErrorResponse(id, "InvalidParams",
                        <<"Resource not found: ">> \o r.uri, found.fault))
             ELSE Running(id, r, "start", "readResource", found.via)

\* One step of the handler of a running request e on the filesystem f:
\* [fs, pc, tmp, response], the response <<>> until the handler completed.
HandlerStep(e, f) ==
    LET ToolReturn(st) ==
            [fs |-> st.fs, pc |-> st.pc, tmp |-> st.tmp,
             response |-> IF st.out = <<>> THEN <<>>
                          ELSE <<ResultResponse(e.id, ToolPayload(st.out[1]))>>]
        ReadReturn(st) ==
            [fs |-> f, pc |-> st.pc, tmp |-> 0,
             response |->
                IF st.out /= <<>>
                THEN <<ResultResponse(e.id,
                        Payload("resource", FALSE, <<>>,
                                ReadCallbackResult(st.out[1]).contents, <<>>, <<>>))>>
                ELSE IF st.thrown /= <<>>
                THEN <<ErrorResponse(e.id, "InternalError", st.thrown[1], "")>>
                ELSE <<>>]
        PromptReturn(g) ==
            [fs |-> f, pc |-> "ret", tmp |-> 0,
             response |->
                IF g.thrown /= ""
                THEN <<ErrorResponse(e.id, "InternalError", <<g.thrown>>, "")>>
                ELSE <<ResultResponse(e.id,
                        Payload("prompt", FALSE, <<>>, <<>>, g.messages, <<>>))>>]
    IN  IF e.method = "tools/call"
        THEN ToolReturn(ToolStep(e.calls, e.pc, e.args, e.tmp, f))
        ELSE IF e.method = "prompts/get"
        THEN PromptReturn(promptGenerate(e.calls, e.args, f))
        ELSE ReadReturn(readResource(e.pc, UrlToString(e.uri), f))

-----------------------------------------------------------------------------
(* The requests the host may send *)

\* Path strings as the host writes them: an existing file (absolute), an
\* existing directory (relative), a missing path (relative, with a dot
\* segment), a path whose parent is missing, and the working directory.
PFile == <<"/", "w", "/", "a.txt">>
PDir == <<"d">>
PMissing == <<".", "/", "nope">>
PDeep == <<"nope", "/", "c.txt">>
PHere == <<".">>

Str1(key, str) == With(NoArgs, key, StrVal(str))
Str2(k1, s1, k2, s2) == With(Str1(k1, s1), k2, StrVal(s2))

\* The argument mappings tried for each tool name: conforming ones, and ones
\* with a required key missing or of the wrong type, or an enum violated.
ToolArgs(name) ==
    CASE name = "read_file" ->
            {Str1("path", p) : p \in {PFile, PDir, PMissing}}
            \cup {Str2("path", PFile, "encoding", <<"base64">>),
                  Str2("path", PFile, "encoding", <<"latin1">>),
                  NoArgs, With(NoArgs, "path", NumVal(7))}
      [] name = "write_file" ->
            {Str2("path", p, "content", <<"x">>) : p \in {PFile, PDir, PDeep}}
            \cup {With(Str2("path", PFile, "content", <<"x">>), "append", BoolVal(TRUE)),
                  With(Str2("path", PDeep, "content", <<"x">>), "append", BoolVal(TRUE)),
                  Str1("path", PFile), Str1("content", <<"x">>),
                  With(Str1("path", PFile), "content", BoolVal(TRUE))}
      [] name = "list_directory" ->
            {Str1("path", p) : p \in {PFile, PDir, PMissing}}
            \cup {With(Str1("path", PHere), "recursive", BoolVal(TRUE)), NoArgs}
      [] name = "search_files" ->
            {Str2("directory", p, "pattern", <<"*", ".", "t", "s">>) : p \in {PHere, PMissing}}
            \cup {Str2("directory", PHere, "pattern", <<"?">>),
                  Str2("directory", PHere, "pattern", <<"a", "?", ".", "t", "x", "t">>),
                  With(Str2("directory", PHere, "pattern", <<"T">>), "maxResults", NumVal(1)),
                  Str1("directory", PHere), Str1("pattern", <<"*">>)}
      [] name = "get_file_info" ->
            {Str1("path", p) : p \in {PFile, PDir, PMissing}}
            \cup {NoArgs, With(NoArgs, "path", BoolVal(FALSE))}
      [] name = "delete_file" ->
            {Str1("path", p) : p \in {PFile, PDir, PMissing}} \cup {NoArgs}
      [] OTHER -> {Str1("path", PFile)}

\* A tool name that is not registered.
UnregisteredTool == "move_file"

ToolNames == Range(ALL_TOOLS) \cup {UnregisteredTool}

\* The URIs read: static entries, files and directories the template covers,
\* a missing directory, the root, and a URI of another scheme.
ReadUris ==
    { FileUri(<<"/", "w", "/", "README.md">>), FileUri(<<"/", "w", "/">>),
      FileUri(<<"/", "w", "/", "d">>), FileUri(<<"/", "w", "/", "d", "/", "big.bin">>),
      FileUri(<<"/", "w", "/", "nope", "/">>), FileUri(<<"/">>),
      FileUri(<<"/", "w", "/", "a.txt">>), <<"http://", "x", "/">> }

ToolCalls ==
    UNION {{Req("tools/call", n, a, <<>>) : a \in ToolArgs(n)} : n \in ToolNames}

ResourceReads == {Req("resources/read", "", NoArgs, u) : u \in ReadUris}

PromptGets ==
    { Req("prompts/get", "review-file", Str1("path", PFile), <<>>),
      Req("prompts/get", "review-file", NoArgs, <<>>),
      Req("prompts/get", "review-file", Str1("focus", <<"security">>), <<>>),
      Req("prompts/get", "summarize-directory", NoArgs, <<>>),
      Req("prompts/get", "find-and-explain", Str1("directory", PHere), <<>>),
      Req("prompts/get", "no-such-prompt", NoArgs, <<>>) }

Plain ==
    {Req(m, "", NoArgs, <<>>) :
        m \in {"initialize", "tools/list", "resources/list", "prompts/list", "foo/bar"}}

Requests == ToolCalls \cup ResourceReads \cup PromptGets \cup Plain

-----------------------------------------------------------------------------
(* The process: startup, then serving *)

\* A slip of the order: the transport is connected before anything is
\* registered.
ProgramConnectFirst == <<"connect", "module", "build", "statics", "template", "banner">>

\* The order of index.ts: the registrations of the module's top level, then
\* main(): the static resources are found and registered, the template is
\* registered, the transport is connected, the banner is written.
Program == <<"module", "build", "statics", "template", "connect", "banner">>

At(step) == proc = "starting" /\ spc <= Len(Program) /\ Program[spc] = step

\* The tree the server starts on.
InitFs(withReadme) ==
    [l \in FsLocs |->
        CASE l \in {<<>>, <<"w">>, <<"w", "d">>} -> DirNode
          [] l = <<"w", "README.md">> ->
                IF withReadme THEN FileNode(<<"readme">>) ELSE NoNode
          [] l = <<"w", "a.txt">> -> FileNode(<<"hello">>)
          [] l = <<"w", "d", "b.ts">> -> FileNode(<<"code">>)
          [] l = <<"w", "d", "big.bin">> -> FileNode(<<"BIG">>)
          [] OTHER -> NoNode]

\* The process as it starts: nothing registered, no transport, no request.
InitProcess ==
    /\ proc = "starting"
    /\ spc = 1
    /\ mpc = 1
    /\ statics = <<>>
    /\ registry = EmptyRegistry
    /\ session = "Unconnected"
    /\ reqs = <<>>
    /\ nextId = 1
    /\ sent = [i \in 1..MaxReq |-> 0]
    /\ exitFault = ""
    /\ stdout = [transport |-> 0, server |-> 0]
    /\ stderr = <<>>

InitCommon ==
    /\ InitProcess
    /\ fs \in {InitFs(TRUE), InitFs(FALSE)}

Init == script = IndexScript /\ InitCommon

\* A fault that leaves the module's top level or main(): the process exits.
Exit(fault) ==
    /\ proc' = "exited"
    /\ exitFault' = fault
    /\ stderr' = Append(stderr,
                    IF At("module")
                    THEN [by |-> "runtime", text |-> <<"Uncaught ", fault>>]
                    ELSE [by |-> "server", text |-> <<"Fatal error: ", fault>>])
    /\ UNCHANGED <<script, spc, mpc, statics, registry, session, fs, reqs, nextId, sent,
                   stdout>>

\* One registerTool / registerPrompt call of the module's top level.
ModuleRegister ==
    /\ At("module")
    /\ mpc <= Len(script)
    /\ LET call == script[mpc]
           r == IF call.op = "tool" THEN registerTool(registry, call.name)
                ELSE registerPrompt(registry, call.name)
       IN  IF r.fault /= "" THEN Exit(r.fault)
           ELSE /\ registry' = r.registry
                /\ mpc' = mpc + 1
                /\ UNCHANGED <<script, proc, spc, statics, session, fs, reqs, nextId,
                               sent, exitFault,
                               stdout, stderr>>

\* The module's top level is through; main() is called.
ModuleDone ==
    /\ At("module")
    /\ mpc > Len(script)
    /\ spc' = spc + 1
    /\ UNCHANGED <<script, proc, mpc, statics, registry, session, fs, reqs, nextId,
                   sent, exitFault,
                   stdout, stderr>>

\* const staticResources = await buildStaticResources()
Build ==
    /\ At("build")
    /\ statics' = buildStaticResources(fs)
    /\ spc' = spc + 1
    /\ UNCHANGED <<script, proc, mpc, registry, session, fs, reqs, nextId, sent,
                   exitFault,
                   stdout, stderr>>

\* for (const resource of staticResources) server.registerResource(...)
RegisterStatics ==
    /\ At("statics")
    /\ LET r == registerAll(registry, statics, 1)
       IN  IF r.fault /= "" THEN Exit(r.fault)
           ELSE /\ registry' = r.registry
                /\ spc' = spc + 1
                /\ UNCHANGED <<script, proc, mpc, statics, session, fs, reqs, nextId,
                               sent, exitFault,
                               stdout, stderr>>

\* server.registerResource("file", new ResourceTemplate("file://{path}"), ...)
RegisterTemplate ==
    /\ At("template")
    /\ registry' = registerTemplate(registry, "file", "file://").registry
    /\ spc' = spc + 1
    /\ UNCHANGED <<script, proc, mpc, statics, session, fs, reqs, nextId, sent,
                   exitFault,
                   stdout, stderr>>

\* await server.connect(transport): the transport attaches.
Connect ==
    /\ At("connect")
    /\ session' = IF session = "Unconnected" THEN "Negotiating" ELSE session
    /\ spc' = spc + 1
    /\ UNCHANGED <<script, proc, mpc, statics, registry, fs, reqs, nextId, sent,
                   exitFault,
                   stdout, stderr>>

\* The text of the startup banner.
BannerText ==
    <<"Server started.\n", "Tools: ">> \o ALL_TOOLS \o <<"\n", "Prompts: ">>
        \o PromptNames \o <<"\n">>

\* A main() that prints its banner with console.log.
BannerOnStdout ==
    /\ At("banner")
    /\ stdout' = [stdout EXCEPT !.server = @ + 1]
    /\ spc' = spc + 1
    /\ UNCHANGED <<script, proc, mpc, statics, registry, session, fs, reqs, nextId,
                   sent, exitFault, stderr>>

\* The banner is written to stderr; main() returns.
Banner ==
    /\ At("banner")
    /\ stderr' = Append(stderr, [by |-> "server", text |-> BannerText])
    /\ spc' = spc + 1
    /\ UNCHANGED <<script, proc, mpc, statics, registry, session, fs, reqs, nextId,
                   sent, exitFault,
                   stdout>>

\* The startup program is through: the process serves.
Started ==
    /\ proc = "starting"
    /\ spc > Len(Program)
    /\ proc' = "serving"
    /\ UNCHANGED <<script, spc, mpc, statics, registry, session, fs, reqs, nextId,
                   sent, exitFault,
                   stdout, stderr>>

Open == session \in {"Negotiating", "Ready"}

\* A session that writes the response of a completed request whatever its
\* state.
DeliverAlways(e, response) ==
    /\ reqs' = [reqs EXCEPT ![e.id] =
                    [e EXCEPT !.stage = "done", !.pc = "", !.resp = <<response>>]]
    /\ sent' = [sent EXCEPT ![e.id] = @ + 1]
    /\ stdout' = [stdout EXCEPT !.transport = @ + 1]

\* The response of a completed request is written to the transport, unless
\* the session is closed: then the completion is discarded.
Deliver(e, response) ==
    IF session = "Closed"
    THEN /\ reqs' = [reqs EXCEPT ![e.id] = [e EXCEPT !.stage = "dropped", !.pc = ""]]
         /\ sent' = sent
         /\ stdout' = stdout
    ELSE /\ reqs' = [reqs EXCEPT ![e.id] =
                        [e EXCEPT !.stage = "done", !.pc = "", !.resp = <<response>>]]
         /\ sent' = [sent EXCEPT ![e.id] = @ + 1]
         /\ stdout' = [stdout EXCEPT !.transport = @ + 1]

\* The host sends a request; the server reads it and dispatches it: it is
\* answered at once, or its handler is started.
Request(r) ==
    /\ proc /= "exited"
    /\ Open
    /\ nextId <= MaxReq
    /\ Cardinality(DOMAIN reqs) < MaxInflight
    /\ r.method = "initialize" =>
            /\ session = "Negotiating"
            /\ \A i \in DOMAIN reqs : reqs[i].method /= "initialize"
    /\ LET e == Dispatch(registry, session, nextId, r)
       IN  /\ reqs' = [i \in DOMAIN reqs \cup {nextId} |-> IF i = nextId THEN e ELSE reqs[i]]
           /\ sent' = IF e.stage = "done" THEN [sent EXCEPT ![nextId] = @ + 1] ELSE sent
           /\ stdout' = IF e.stage = "done" THEN [stdout EXCEPT !.transport = @ + 1]
                        ELSE stdout
    /\ nextId' = nextId + 1
    /\ UNCHANGED <<script, proc, spc, mpc, statics, registry, session, fs, exitFault,
                   stderr>>

\* The handshake is under way and the host holds the result of initialize.
InitializeAnswered ==
    /\ proc /= "exited"
    /\ session = "Negotiating"
    /\ \E i \in DOMAIN reqs :
            /\ reqs[i].method = "initialize"
            /\ reqs[i].stage = "done"
            /\ reqs[i].resp[1].result /= <<>>

\* The notification that ends the handshake, once initialize was answered.
Initialized ==
    /\ InitializeAnswered
    /\ session' = "Ready"
    /\ UNCHANGED <<script, proc, spc, mpc, statics, registry, fs, reqs, nextId, sent,
                   exitFault,
                   stdout, stderr>>

\* A server that runs its handlers one after the other: the handler of a
\* request can take a step only when no earlier request is still running.
StepEnabledInOrder(id) ==
    /\ proc /= "exited"
    /\ id \in DOMAIN reqs
    /\ reqs[id].stage = "run"
    /\ \A i \in DOMAIN reqs : i < id => reqs[i].stage /= "run"

\* The handler of the request with id id can take a step: it is running.
\* Handlers interleave at their awaits, none waits for another.
StepEnabled(id) ==
    /\ proc /= "exited"
    /\ id \in DOMAIN reqs
    /\ reqs[id].stage = "run"

\* The handler of a running request takes its next step: one filesystem call
\* and what follows it up to the next one, or up to its return.
Step(id) ==
    /\ StepEnabled(id)
    /\ \E st \in {HandlerStep(reqs[id], fs)} :
            /\ fs' = st.fs
            /\ IF st.response = <<>>
               THEN /\ reqs' = [reqs EXCEPT ![id] = [@ EXCEPT !.pc = st.pc, !.tmp = st.tmp]]
                    /\ sent' = sent
                    /\ stdout' = stdout
               ELSE Deliver([reqs[id] EXCEPT !.tmp = 0], st.response[1])
    /\ UNCHANGED <<script, proc, spc, mpc, statics, registry, session, nextId, exitFault,
                   stderr>>

\* The host drops its record of a request that is through.
Forget(id) ==
    /\ id \in DOMAIN reqs
    /\ reqs[id].stage \in {"done", "dropped"}
    /\ ~(reqs[id].method = "initialize" /\ session = "Negotiating")
    /\ reqs' = [i \in DOMAIN reqs \ {id} |-> reqs[i]]
    /\ UNCHANGED <<script, proc, spc, mpc, statics, registry, session, fs, nextId, sent,
                   exitFault,
                   stdout, stderr>>

\* The transport closes.
Close ==
    /\ Open
    /\ session' = "Closed"
    /\ UNCHANGED <<script, proc, spc, mpc, statics, registry, fs, reqs, nextId, sent,
                   exitFault,
                   stdout, stderr>>

Startup ==
    \/ ModuleRegister
    \/ ModuleDone
    \/ Build
    \/ RegisterStatics
    \/ RegisterTemplate
    \/ Connect
    \/ Banner
    \/ Started

Next ==
    \/ Startup
    \/ \E r \in Requests : Request(r)
    \/ Initialized
    \/ \E id \in 1..MaxReq : Step(id)
    \/ \E id \in 1..MaxReq : Forget(id)
    \/ Close

Spec == Init /\ [][Next]_vars

\* The requests of the runs in which a handler may hang: the handshake and
\* handlers of one and of several filesystem calls.
LiveRequests ==
    { Req("initialize", "", NoArgs, <<>>),
      Req("tools/call", "read_file", Str1("path", PFile), <<>>),
      Req("tools/call", "write_file", Str2("path", PDeep, "content", <<"x">>), <<>>),
      Req("tools/call", "list_directory",
          With(Str1("path", PHere), "recursive", BoolVal(TRUE)), <<>>),
      Req("tools/call", "search_files",
          Str2("directory", PHere, "pattern", <<"*", ".", "t", "s">>), <<>>),
      Req("resources/read", "", NoArgs, FileUri(<<"/", "w", "/">>)) }

NextLive ==
    \/ Startup
    \/ \E r \in LiveRequests : Request(r)
    \/ Initialized
    \/ \E id \in 1..MaxReq : Step(id)
    \/ \E id \in 1..MaxReq : Forget(id)
    \/ Close

\* Weak fairness of Step(id), WF_vars(Step(id)), written out: Step(id) is
\* enabled exactly when StepEnabled(id) holds, and each of its steps changes
\* reqs.
FairStep(id) == []<>(~StepEnabled(id)) \/ []<><<Step(id)>>_vars

\* The event loop runs the continuation of a handler once the filesystem call
\* it awaits has completed. The calls of the last request complete; those of
\* the requests before it may never do (no fairness for their steps).
SpecLive == Init /\ [][NextLive]_vars /\ FairStep(MaxReq)

-----------------------------------------------------------------------------
(* Startup on any registration script: what the module's top level does when
   its registerTool / registerPrompt calls repeat a name *)

MaxScript == 3

ScriptNames == {"read_file", "write_file"}

ScriptCalls == [op : {"tool", "prompt"}, name : ScriptNames]

Scripts == UNION {[1..n -> ScriptCalls] : n \in 0..MaxScript}

InitReg == script \in Scripts /\ InitCommon

NextReg == Startup

SpecReg == InitReg /\ [][NextReg]_vars

\* Top levels that register the tools and the prompts, the tools only, the
\* prompts only, or neither: the capabilities declared differ.
CapScripts ==
    {IndexScript, SubSeq(IndexScript, 1, 6), SubSeq(IndexScript, 7, 9), <<>>}

\* Requests of every method family, and of a method that does not exist.
CapRequests ==
    Plain \cup
    { Req("tools/call", "read_file", Str1("path", PFile), <<>>),
      Req("prompts/get", "review-file", Str1("path", PFile), <<>>),
      Req("resources/read", "", NoArgs, FileUri(<<"/", "w", "/", "a.txt">>)) }

InitCap == script \in CapScripts /\ InitCommon

NextCap ==
    \/ Startup
    \/ \E r \in CapRequests : Request(r)
    \/ Initialized
    \/ \E id \in 1..MaxReq : Step(id)
    \/ \E id \in 1..MaxReq : Forget(id)
    \/ Close

\* The server serving whatever its top level registered.
SpecCap == InitCap /\ [][NextCap]_vars

\* The top level of index.ts, and top levels that register a tool or a
\* prompt a second time.
IoScripts ==
    { IndexScript,
      Append(IndexScript, [op |-> "tool", name |-> "read_file"]),
      <<[op |-> "prompt", name |-> "review-file"],
        [op |-> "prompt", name |-> "review-file"]>> }

InitIo == script \in IoScripts /\ InitCommon

\* await server.connect(transport) rejects: main() rejects with the fault.
ConnectFails ==
    /\ At("connect")
    /\ session = "Unconnected"
    /\ Exit("ConnectError")

NextIo ==
    \/ Startup
    \/ ConnectFails
    \/ \E r \in CapRequests : Request(r)
    \/ Initialized
    \/ \E id \in 1..MaxReq : Step(id)
    \/ \E id \in 1..MaxReq : Forget(id)
    \/ Close

\* The process with its standard streams: starts that succeed and starts
\* that fail, at the top level or inside main().
SpecIo == InitIo /\ [][NextIo]_vars

-----------------------------------------------------------------------------
(* Properties *)

\* A text contains another as a contiguous run of tokens.
Contains(s, sub) ==
    \E i \in 0..(Len(s) - Len(sub)) :
        \A j \in 1..Len(sub) : s[i + j] = sub[j]

StartsWith(text, prefix) ==
    Len(text) >= Len(prefix) /\ SubSeq(text, 1, Len(prefix)) = prefix

\* The request with this id is dispatched by the step, the session Ready.
Dispatched(id) ==
    /\ session = "Ready"
    /\ nextId = id
    /\ nextId' = id + 1
    /\ id \in DOMAIN reqs'

\* The handler of the running request with this id returns in the step and
\* its response is sent.
Completes(id) ==
    /\ id \in DOMAIN reqs
    /\ reqs[id].stage = "run"
    /\ id \in DOMAIN reqs'
    /\ reqs'[id].stage = "done"

\* A response is an error of the class code carrying the id.
IsError(resp, id, code) ==
    /\ resp.id = id
    /\ resp.result = <<>>
    /\ Len(resp.error) = 1
    /\ resp.error[1].code = code

\* A response is a tool result carrying the id.
IsToolResult(resp, id) ==
    /\ resp.id = id
    /\ resp.error = <<>>
    /\ Len(resp.result) = 1
    /\ resp.result[1].kind = "tool"
    /\ Len(resp.result[1].content) = 1
    /\ resp.result[1].content[1].type = "text"

\* The text of a tool result's content item.
TextOf(resp) == resp.result[1].content[1].text

\* A tool result's text is the one err() writes.
SignalsFailure(resp) == StartsWith(TextOf(resp), <<"ERROR: ">>) /\ Len(TextOf(resp)) > 1

\* C1: for every request, at most one response is ever sent for its id; a
\* request that was answered got exactly one, with its own id, carrying a
\* result or an error and never both; a request whose handler still runs got
\* none.
C1_OneResponsePerRequest ==
    \A id \in 1..MaxReq :
        /\ sent[id] <= 1
        /\ id \in DOMAIN reqs =>
            /\ reqs[id].id = id
            /\ reqs[id].stage = "done" =>
                /\ sent[id] = 1
                /\ Len(reqs[id].resp) = 1
                /\ reqs[id].resp[1].id = id
                /\ (reqs[id].resp[1].result = <<>>) /= (reqs[id].resp[1].error = <<>>)
            /\ reqs[id].stage \in {"run", "dropped"} =>
                /\ sent[id] = 0
                /\ reqs[id].resp = <<>>

\* C1 happens: a later request was answered with its handler's result while
\* an earlier one is still running, and a third one, answered too, is
\* forgotten.
C1_Witness ==
    \E i, j \in DOMAIN reqs :
        /\ i < j
        /\ reqs[i].stage = "run"
        /\ reqs[j].stage = "done"
        /\ reqs[j].calls /= ""
        /\ reqs[j].resp[1].result /= <<>>
        /\ sent[j] = 1
        /\ \E k \in 1..MaxReq : k \notin DOMAIN reqs /\ sent[k] = 1

C3_UnknownToolRejected ==
    [][\A id \in 1..MaxReq :
        (/\ Dispatched(id)
         /\ reqs'[id].method = "tools/call"
         /\ reqs'[id].name \notin Range(ALL_TOOLS)) =>
            /\ reqs'[id].stage = "done"
            /\ IsError(reqs'[id].resp[1], id, "InvalidParams")
            /\ reqs'[id].calls = ""
            /\ fs' = fs
            /\ \A i \in DOMAIN reqs : reqs'[i] = reqs[i]]_vars

\* C3 happens: a call of the unregistered name was answered by invalid params
\* while the handler of another request is running.
C3_Witness ==
    \E i, j \in DOMAIN reqs :
        /\ reqs[i].method = "tools/call"
        /\ reqs[i].name = UnregisteredTool
        /\ reqs[i].stage = "done"
        /\ IsError(reqs[i].resp[1], i, "InvalidParams")
        /\ reqs[i].calls = ""
        /\ reqs[j].stage = "run"

\* The argument mapping conforms to the inputSchema of the tool definition in
\* tools.ts: every required key is there, and every key of the schema that is
\* there has the schema's type and, where the schema has an enum, one of its
\* values.
Conforms(name, args) ==
    /\ ToolRequired(name) \subseteq DOMAIN args
    /\ \A key \in DOMAIN args \cap DOMAIN ToolProperties(name) :
        /\ args[key].t = ToolProperties(name)[key]
        /\ ToolEnum(name, key) /= {} => args[key].s \in ToolEnum(name, key)

\* A required key of the tool is missing from the mapping or has another
\* type than the schema's.
LacksRequired(name, args) ==
    \E key \in ToolRequired(name) :
        key \notin DOMAIN args \/ args[key].t /= ToolProperties(name)[key]

\* C4: a tools/call dispatched for one of the six tools with a required field
\* missing or of the wrong type is answered at once by an invalid-params
\* error; its handler is not invoked and the filesystem is unchanged.
C4_MissingRequiredRejected ==
    [][\A id \in 1..MaxReq :
        (/\ Dispatched(id)
         /\ reqs'[id].method = "tools/call"
         /\ reqs'[id].name \in Range(ALL_TOOLS)
         /\ LacksRequired(reqs'[id].name, reqs'[id].args)) =>
            /\ reqs'[id].stage = "done"
            /\ IsError(reqs'[id].resp[1], id, "InvalidParams")
            /\ reqs'[id].calls = ""
            /\ fs' = fs]_vars

\* C4 happens: write_file without content, and a tool with a path of the
\* wrong type, were each answered by invalid params.
C4_Witness ==
    \E i, j \in DOMAIN reqs :
        /\ reqs[i].name = "write_file"
        /\ "content" \notin DOMAIN reqs[i].args
        /\ "path" \in DOMAIN reqs[i].args
        /\ IsError(reqs[i].resp[1], i, "InvalidParams")
        /\ reqs[j].name \in Range(ALL_TOOLS)
        /\ "path" \in DOMAIN reqs[j].args
        /\ reqs[j].args["path"].t /= "string"
        /\ reqs[j].stage = "done"
        /\ IsError(reqs[j].resp[1], j, "InvalidParams")

\* C5: a tools/call dispatched for one of the six tools with a conforming
\* argument mapping has its handler started, never an error; and when the
\* handler of a tools/call returns, the response is a result with the
\* request's id whose isError is set only if the result is a failure the
\* handler wrote.
C5_ConformingCallGetsResult ==
    [][\A id \in 1..MaxReq :
        /\ (/\ Dispatched(id)
            /\ reqs'[id].method = "tools/call"
            /\ reqs'[id].name \in Range(ALL_TOOLS)
            /\ Conforms(reqs'[id].name, reqs'[id].args)) =>
                /\ reqs'[id].stage = "run"
                /\ reqs'[id].calls = reqs'[id].name
                /\ reqs'[id].resp = <<>>
        /\ (Completes(id) /\ reqs[id].method = "tools/call") =>
                /\ Conforms(reqs[id].name, reqs[id].args)
                /\ IsToolResult(reqs'[id].resp[1], id)
                /\ reqs'[id].resp[1].result[1].isError => SignalsFailure(reqs'[id].resp[1])]_vars

\* C5 happens: a conforming call with an optional argument was answered by a
\* result that is no failure, and a conforming call by a result that is one.
C5_Witness ==
    \E i, j \in DOMAIN reqs :
        /\ reqs[i].method = "tools/call"
        /\ reqs[i].name = "read_file"
        /\ "encoding" \in DOMAIN reqs[i].args
        /\ Conforms(reqs[i].name, reqs[i].args)
        /\ reqs[i].stage = "done"
        /\ IsToolResult(reqs[i].resp[1], i)
        /\ ~reqs[i].resp[1].result[1].isError
        /\ reqs[j].method = "tools/call"
        /\ reqs[j].stage = "done"
        /\ reqs[j].calls /= ""
        /\ IsToolResult(reqs[j].resp[1], j)
        /\ reqs[j].resp[1].result[1].isError

\* The location a tools/call is asked to operate on.
TargetOf(e) ==
    Resolve(Cwd, IF e.name = "search_files" THEN e.args["directory"].s
                 ELSE e.args["path"].s)

\* C6, as the specification states it, for the five tools that do not create
\* what they are asked for: when the handler returns in a step in which its
\* target does not exist, the result has isError true.
C6_MissingTargetIsError ==
    [][\A id \in 1..MaxReq :
        (/\ Completes(id)
         /\ reqs[id].method = "tools/call"
         /\ reqs[id].name /= "write_file"
         /\ KindAt(fs, TargetOf(reqs[id])) = "none") =>
            /\ IsToolResult(reqs'[id].resp[1], id)
            /\ reqs'[id].resp[1].result[1].isError]_vars

\* C7, as amended: when get_file_info returns in a step in which the path it
\* was asked for does not exist, the response is a tool result with isError
\* true whose text contains the absolute path the asked path resolves to
\* against the working directory.
C7_MissingPathNamesResolvedPath ==
    [][\A id \in 1..MaxReq :
        (/\ Completes(id)
         /\ reqs[id].method = "tools/call"
         /\ reqs[id].name = "get_file_info"
         /\ KindAt(fs, Resolve(Cwd, reqs[id].args["path"].s)) = "none") =>
            /\ IsToolResult(reqs'[id].resp[1], id)
            /\ reqs'[id].resp[1].result[1].isError
            /\ Contains(TextOf(reqs'[id].resp[1]),
                        PathStr(Resolve(Cwd, reqs[id].args["path"].s)))]_vars

\* C7 happens: get_file_info asked for "./nope" was answered by an isError
\* result naming "/w/nope".
C7_Witness ==
    \E i \in DOMAIN reqs :
        /\ reqs[i].name = "get_file_info"
        /\ reqs[i].stage = "done"
        /\ reqs[i].calls = "get_file_info"
        /\ reqs[i].args["path"].s = PMissing
        /\ IsToolResult(reqs[i].resp[1], i)
        /\ reqs[i].resp[1].result[1].isError
        /\ Contains(TextOf(reqs[i].resp[1]), <<"/", "w", "/", "nope">>)

\* C7, as the specification states it: the text contains the path that was
\* asked for.
C7_MissingPathNamesAskedPath ==
    [][\A id \in 1..MaxReq :
        (/\ Completes(id)
         /\ reqs[id].method = "tools/call"
         /\ reqs[id].name = "get_file_info"
         /\ KindAt(fs, Resolve(Cwd, reqs[id].args["path"].s)) = "none") =>
            /\ IsToolResult(reqs'[id].resp[1], id)
            /\ reqs'[id].resp[1].result[1].isError
            /\ Contains(TextOf(reqs'[id].resp[1]), reqs[id].args["path"].s)]_vars

\* The string after "file://" of a URI, and whether it ends with a separator.
RawPath(uri) == Tail(uri)

EndsWithSeparator(uri) ==
    /\ uri /= <<>>
    /\ Head(uri) = "file://"
    /\ RawPath(uri) /= <<>>
    /\ Last(RawPath(uri)) = "/"

\* The entries of the directory at a location.
ChildrenOf(f, loc) ==
    {l \in DOMAIN f : /\ Len(l) = Len(loc) + 1
                      /\ SubSeq(l, 1, Len(loc)) = loc
                      /\ f[l].kind /= "none"}

\* The line breaks of a text.
LineBreaks(text) == Cardinality({i \in 1..Len(text) : text[i] = "\n"})

\* A response is the text/plain listing of the directory at a location as
\* the filesystem has it: the header line, then one line for every entry, in
\* the text field, with no blob.
IsListing(resp, id, f, loc) ==
    /\ resp.id = id
    /\ resp.error = <<>>
    /\ Len(resp.result) = 1
    /\ Len(resp.result[1].contents) = 1
    /\ resp.result[1].contents[1].mimeType = "text/plain"
    /\ resp.result[1].contents[1].blob = <<>>
    /\ Len(resp.result[1].contents[1].text) = 1
    /\ StartsWith(resp.result[1].contents[1].text[1],
                  <<"Directory listing: ">> \o PathStr(loc) \o <<"\n">>)
    /\ LineBreaks(resp.result[1].contents[1].text[1]) = 1 + Cardinality(ChildrenOf(f, loc))

\* A response carries a blob.
HasBlob(resp) ==
    /\ resp.result /= <<>>
    /\ \E i \in 1..Len(resp.result[1].contents) : resp.result[1].contents[i].blob /= <<>>

\* C8, as amended: when the read of a file:// URI that ends with a separator,
\* or of one whose path is a directory, returns in a step in which the
\* directory exists, the response is the text/plain listing of that directory
\* (of "/" for file:///); and the read of a URI that ends with a separator
\* never returns a blob.
C8_DirectoryUriListsAsText ==
    [][\A id \in 1..MaxReq :
        (Completes(id) /\ reqs[id].method = "resources/read"
                       /\ Head(reqs[id].uri) = "file://") =>
            /\ KindAt(fs, Resolve(Cwd, RawPath(reqs[id].uri))) = "dir" =>
                    IsListing(reqs'[id].resp[1], id, fs, Resolve(Cwd, RawPath(reqs[id].uri)))
            /\ EndsWithSeparator(reqs[id].uri) => ~HasBlob(reqs'[id].resp[1])]_vars

\* C8 happens: the root, the working directory by its static entry, and a
\* directory named without a trailing separator were each read as a listing.
C8_Witness ==
    \E i \in DOMAIN reqs :
        /\ reqs[i].method = "resources/read"
        /\ reqs[i].stage = "done"
        /\ reqs[i].uri \in {FileUri(<<"/">>), FileUri(<<"/", "w", "/", "d">>)}
        /\ reqs[i].resp[1].result /= <<>>
        /\ reqs[i].resp[1].result[1].contents[1].mimeType = "text/plain"
        /\ reqs[i].resp[1].result[1].contents[1].text /= <<>>
        /\ \E j \in DOMAIN reqs :
            /\ j /= i
            /\ reqs[j].uri = FileUri(<<"/", "w", "/">>)
            /\ reqs[j].stage = "done"
            /\ reqs[j].resp[1].result /= <<>>
            /\ reqs[j].resp[1].result[1].contents[1].blob = <<>>

\* C8, as the specification states it: the read of any file:// URI that ends
\* with a separator returns text/plain content with the listing.
C8_AnySeparatorUriLists ==
    [][\A id \in 1..MaxReq :
        (Completes(id) /\ reqs[id].method = "resources/read"
                       /\ EndsWithSeparator(reqs[id].uri)) =>
            /\ reqs'[id].resp[1].error = <<>>
            /\ Len(reqs'[id].resp[1].result) = 1
            /\ reqs'[id].resp[1].result[1].contents[1].mimeType = "text/plain"
            /\ reqs'[id].resp[1].result[1].contents[1].text /= <<>>]_vars

\* The URIs of the static entries buildStaticResources found at startup.
StaticUris == {statics[i].uri : i \in 1..Len(statics)}

\* The file://{path} template matches a URI.
MatchesFileTemplate(uri) == uri /= <<>> /\ Head(uri) = "file://" /\ Tail(uri) /= <<>>

\* C9: a resources/read dispatched for the URI of a static entry is resolved
\* to the static entry, also when the template matches it; it is resolved to
\* the template only when no static entry has exactly this URI and the
\* template matches; and a URI that matches neither is answered by not-found.
C9_StaticWinsOverTemplate ==
    [][\A id \in 1..MaxReq :
        (Dispatched(id) /\ reqs'[id].method = "resources/read") =>
            /\ reqs'[id].uri \in StaticUris =>
                    reqs'[id].stage = "run" /\ reqs'[id].via = "static"
            /\ (reqs'[id].uri \notin StaticUris /\ MatchesFileTemplate(reqs'[id].uri)) =>
                    reqs'[id].stage = "run" /\ reqs'[id].via = "template"
            /\ (reqs'[id].uri \notin StaticUris /\ ~MatchesFileTemplate(reqs'[id].uri)) =>
                    /\ reqs'[id].stage = "done"
                    /\ reqs'[id].via = ""
                    /\ reqs'[id].resp[1].result = <<>>
                    /\ reqs'[id].resp[1].error[1].fault = "NotFoundError"]_vars

\* C9 happens: the working-directory entry, which the template matches too,
\* was resolved to the static entry, and another URI to the template.
C9_Witness ==
    \E i, j \in DOMAIN reqs :
        /\ reqs[i].method = "resources/read"
        /\ reqs[i].uri = FileUri(<<"/", "w", "/">>)
        /\ reqs[i].uri \in StaticUris
        /\ MatchesFileTemplate(reqs[i].uri)
        /\ reqs[i].via = "static"
        /\ reqs[j].method = "resources/read"
        /\ reqs[j].via = "template"

\* The call of the script at position i repeats a name an earlier call of the
\* same kind registered.
Duplicated(i) == \E j \in 1..(i - 1) : script[j] = script[i]

\* The names the calls of one kind register, in their order.
NamesOf(calls, op) ==
    LET kept == SelectSeq(calls, LAMBDA c : c.op = op)
    IN  [i \in 1..Len(kept) |-> kept[i].name]

\* C10: when a registerTool or registerPrompt call repeats a name, startup
\* never gets past it: the session is Unconnected and no request was read;
\* and when the process has exited, it did so at such a call with the
\* duplicate-name fault, the registry holding what the calls before it
\* registered, each name once.
C10_DuplicateNameFaultsAtStartup ==
    /\ \A i \in 1..Len(script) :
        Duplicated(i) =>
            /\ mpc <= i
            /\ session = "Unconnected"
            /\ proc /= "serving"
            /\ reqs = <<>>
            /\ nextId = 1
    /\ proc = "exited" =>
            /\ mpc <= Len(script)
            /\ Duplicated(mpc)
            /\ exitFault = "DuplicateNameError"
            /\ registry.tools = NamesOf(SubSeq(script, 1, mpc - 1), "tool")
            /\ registry.prompts = NamesOf(SubSeq(script, 1, mpc - 1), "prompt")
            /\ registry.resources = <<>>
            /\ registry.templates = <<>>

\* C10 happens: the third call repeated the name of the first, a call of the
\* other kind between them, and the process exited with the fault.
C10_Witness ==
    /\ proc = "exited"
    /\ exitFault = "DuplicateNameError"
    /\ session = "Unconnected"
    /\ Len(script) = 3
    /\ mpc = 3
    /\ script[1] = script[3]
    /\ script[2].op /= script[1].op
    /\ script[2].name = script[1].name
    /\ Len(registry.tools) = 1
    /\ Len(registry.prompts) = 1

\* Everything index.ts registers: the six tools, the three prompts, every
\* static resource buildStaticResources found, and the file://{path} template.
StaticsWithReadme == buildStaticResources(InitFs(TRUE))

StaticsWithoutReadme == buildStaticResources(InitFs(FALSE))

AllRegistered ==
    /\ registry.tools = ALL_TOOLS
    /\ registry.prompts = PromptNames
    /\ registry.resources = statics
    /\ statics \in {StaticsWithReadme, StaticsWithoutReadme}
    /\ registry.templates = <<[name |-> "file", prefix |-> "file://"]>>

\* C11: whenever a step leaves the transport connected, everything is
\* registered; and a step taken with the transport connected changes neither
\* the registry nor the static resources it was filled from.
C11_RegisteredBeforeConnect ==
    [][/\ session' /= "Unconnected" => AllRegistered'
       /\ session /= "Unconnected" => (registry' = registry /\ statics' = statics)]_vars

\* C11 happens: the session is Ready with README.md and the working
\* directory registered, and a tool that changes the filesystem has run.
C11_Witness ==
    /\ proc /= "exited"
    /\ session = "Ready"
    /\ AllRegistered
    /\ Len(registry.resources) = 2
    /\ fs /= InitFs(TRUE)
    /\ \E i \in DOMAIN reqs : reqs[i].stage = "done" /\ reqs[i].calls = "write_file"

\* The request with id id is read and dispatched while the handshake is
\* not over.
DispatchedEarly(id) ==
    /\ session = "Negotiating"
    /\ nextId = id
    /\ nextId' = id + 1
    /\ id \in DOMAIN reqs'

\* The response to the request with id id reports a protocol violation.
IsProtocolViolation(e, id) ==
    /\ e.stage = "done"
    /\ e.resp[1].id = id
    /\ e.resp[1].result = <<>>
    /\ e.resp[1].error /= <<>>
    /\ e.resp[1].error[1].fault = "ProtocolViolation"

\* C12: a request other than initialize that arrives before the handshake is
\* over is answered with a protocol-violation error, starts no handler and
\* leaves the process, the session, the registry and the filesystem as they
\* were; an initialize that arrives then, whatever was rejected before it, is
\* answered with a result, after which the session can become Ready.
C12_EarlyRequestIsProtocolViolation ==
    [][\A id \in 1..MaxReq :
          DispatchedEarly(id) =>
            /\ <<proc, session, registry, fs>>' = <<proc, session, registry, fs>>
            /\ sent'[id] = 1
            /\ reqs'[id].method /= "initialize" =>
                    /\ IsProtocolViolation(reqs'[id], id)
                    /\ reqs'[id].calls = ""
            /\ reqs'[id].method = "initialize" =>
                    /\ reqs'[id].stage = "done"
                    /\ reqs'[id].resp[1].id = id
                    /\ reqs'[id].resp[1].result /= <<>>
                    /\ InitializeAnswered']_vars

\* C12 happens: the first request was rejected as a protocol violation, the
\* initialize that followed it was answered and the session is Ready.
C12_Witness ==
    /\ session = "Ready"
    /\ {1, 2} \subseteq DOMAIN reqs
    /\ reqs[1].method = "tools/call"
    /\ IsProtocolViolation(reqs[1], 1)
    /\ reqs[2].method = "initialize"
    /\ reqs[2].stage = "done"
    /\ reqs[2].resp[1].result /= <<>>

\* C13: with an earlier request's handler still running, and whether or not
\* it ever completes, the handler of a later request runs to its end and its
\* response is written (or discarded, if the transport closed meanwhile).
C13_LaterRequestNotBlocked ==
    (MaxReq \in DOMAIN reqs /\ reqs[MaxReq].stage = "run")
        ~> (sent[MaxReq] = 1 \/ session = "Closed")

\* C13 happens: an earlier request's handler has not taken a step, and the
\* response to the request sent after it has been written.
C13_Witness ==
    /\ session = "Ready"
    /\ sent[MaxReq] = 1
    /\ \E i \in DOMAIN reqs :
            /\ i < MaxReq
            /\ reqs[i].stage = "run"
            /\ reqs[i].method = "tools/call"
            /\ reqs[i].pc = FirstPc(reqs[i].calls)
            /\ sent[i] = 0

\* C14: Closed is terminal. A step taken with the session Closed leaves it
\* Closed, reads no request, writes no response, and lets no request become
\* answered: a handler that completes has its result discarded.
C14_ClosedIsTerminal ==
    [][session = "Closed" =>
          /\ session' = "Closed"
          /\ nextId' = nextId
          /\ sent' = sent
          /\ DOMAIN reqs' \subseteq DOMAIN reqs
          /\ \A i \in DOMAIN reqs' :
                /\ reqs'[i].resp = reqs[i].resp
                /\ reqs'[i].stage \in {reqs[i].stage, "dropped"}
                /\ reqs[i].stage /= "run" => reqs'[i] = reqs[i]]_vars

\* C14 happens: the session closed while a handler was running; the handler
\* has completed since and nothing was written for its request.
C14_Witness ==
    /\ session = "Closed"
    /\ \E i \in DOMAIN reqs :
            /\ reqs[i].stage = "dropped"
            /\ reqs[i].resp = <<>>
            /\ sent[i] = 0

\* The method belongs to a family the server registered nothing for.
Undeclared(method) ==
    \/ method \in {"tools/list", "tools/call"} /\ registry.tools = <<>>
    \/ method \in {"prompts/list", "prompts/get"} /\ registry.prompts = <<>>
    \/ /\ method \in {"resources/list", "resources/read"}
       /\ registry.resources = <<>>
       /\ registry.templates = <<>>

\* The entry of the request with id id is answered with a method-not-found
\* error that carries the id.
IsMethodNotFound(e, id) ==
    /\ e.stage = "done"
    /\ e.resp[1].id = id
    /\ e.resp[1].result = <<>>
    /\ e.resp[1].error /= <<>>
    /\ e.resp[1].error[1].code = "MethodNotFound"

\* C15: a request of a Ready session whose method is not in the method table,
\* or belongs to a capability the server did not declare, is answered with a
\* method-not-found error that carries the request's id; no handler is
\* started and the filesystem is as it was.
C15_UnknownMethodNotFound ==
    [][\A id \in 1..MaxReq :
          (/\ Dispatched(id)
           /\ reqs'[id].method \notin MethodTable \/ Undeclared(reqs'[id].method))
          => /\ IsMethodNotFound(reqs'[id], id)
             /\ reqs'[id].calls = ""
             /\ sent'[id] = 1
             /\ fs' = fs]_vars

\* C15 happens: a server that registered no tool has answered a tools/call
\* and a request of an unknown method with method-not-found.
C15_Witness ==
    /\ session = "Ready"
    /\ registry.tools = <<>>
    /\ \E i, j \in DOMAIN reqs :
            /\ reqs[i].method = "tools/call"
            /\ IsMethodNotFound(reqs[i], i)
            /\ reqs[j].method = "foo/bar"
            /\ IsMethodNotFound(reqs[j], j)

\* The entry is answered with an invalid-params error that carries the id.
IsInvalidParams(e, id) ==
    /\ e.stage = "done"
    /\ e.resp[1].id = id
    /\ e.resp[1].result = <<>>
    /\ e.resp[1].error /= <<>>
    /\ e.resp[1].error[1].code = "InvalidParams"

\* C16: a prompts/get for a registered prompt that lacks an argument the
\* prompt requires is answered with an invalid-params error; the generator is
\* not started, and the process, the session and the filesystem are as they
\* were, so the server keeps answering.
C16_MissingPromptArgumentRejected ==
    [][\A id \in 1..MaxReq :
          (/\ Dispatched(id)
           /\ reqs'[id].method = "prompts/get"
           /\ reqs'[id].name \in Range(registry.prompts)
           /\ ~(PromptRequired(reqs'[id].name) \subseteq DOMAIN reqs'[id].args))
          => /\ IsInvalidParams(reqs'[id], id)
             /\ reqs'[id].calls = ""
             /\ sent'[id] = 1
             /\ <<proc, session, fs>>' = <<proc, session, fs>>]_vars

\* C16 happens: a prompts/get without its required argument was rejected,
\* and the request sent after it has been answered with a result.
C16_Witness ==
    /\ session = "Ready"
    /\ \E i, j \in DOMAIN reqs :
            /\ i < j
            /\ reqs[i].method = "prompts/get"
            /\ reqs[i].name \in {"summarize-directory", "find-and-explain"}
            /\ IsInvalidParams(reqs[i], i)
            /\ reqs[j].stage = "done"
            /\ reqs[j].resp[1].result /= <<>>

\* The read of a URI cannot succeed on the filesystem f: the URI is not a
\* file:// one, or it ends with a separator and what precedes it is not a
\* directory, or nothing exists at its path.
ReadFails(uri, f) ==
    IF uri = <<>> \/ Head(uri) /= "file://" THEN TRUE
    ELSE IF EndsWithSeparator(uri)
    THEN KindAt(f, OsLoc(IF Front(RawPath(uri)) = <<>> THEN <<"/">>
                         ELSE Front(RawPath(uri)))) /= "dir"
    ELSE KindAt(f, OsLoc(RawPath(uri))) = "none"

\* The entry is answered with an error that carries the id, and no result.
IsErrorFor(e, id) ==
    /\ e.stage = "done"
    /\ e.resp[1].id = id
    /\ e.resp[1].result = <<>>
    /\ e.resp[1].error /= <<>>

\* Nothing but the request with id id is touched: the process, the session,
\* the registry and the filesystem are as they were, and so is every other
\* request and what was written for it.
OnlyAffects(id) ==
    /\ <<proc, session, registry, fs>>' = <<proc, session, registry, fs>>
    /\ \A j \in DOMAIN reqs \ {id} : j \in DOMAIN reqs' /\ reqs'[j] = reqs[j]
    /\ \A j \in (1..MaxReq) \ {id} : sent'[j] = sent[j]

\* C17: a resources/read that fails (a URI of another scheme, a path at which
\* nothing exists, a URI that ends with a separator and names no directory)
\* is answered with an error for that request; the session stays as it is,
\* the filesystem is not changed and no other request is touched. No step of
\* the reader changes the filesystem.
C17_FailedReadIsIsolated ==
    [][\A id \in 1..MaxReq :
          /\ (/\ Dispatched(id)
              /\ reqs'[id].method = "resources/read"
              /\ Head(reqs'[id].uri) /= "file://")
             => IsErrorFor(reqs'[id], id) /\ sent'[id] = 1 /\ OnlyAffects(id)
          /\ (/\ Completes(id)
              /\ reqs[id].method = "resources/read"
              /\ ReadFails(UrlToString(reqs[id].uri), fs))
             => IsErrorFor(reqs'[id], id) /\ sent'[id] = 1 /\ OnlyAffects(id)
          /\ (/\ id \in DOMAIN reqs
              /\ reqs[id].method = "resources/read"
              /\ id \in DOMAIN reqs'
              /\ reqs'[id] /= reqs[id])
             => OnlyAffects(id)]_vars

\* C17 happens: the reader has failed on a file:// URI, the session is Ready,
\* the filesystem is as it was at the start, and a read sent after the
\* failed one was answered with the contents of the resource.
C17_Witness ==
    /\ session = "Ready"
    /\ fs \in {InitFs(TRUE), InitFs(FALSE)}
    /\ \E i, j \in DOMAIN reqs :
            /\ i < j
            /\ reqs[i].method = "resources/read"
            /\ reqs[i].via /= ""
            /\ ReadFails(UrlToString(reqs[i].uri), fs)
            /\ IsErrorFor(reqs[i], i)
            /\ reqs[j].method = "resources/read"
            /\ reqs[j].stage = "done"
            /\ reqs[j].resp[1].result /= <<>>

EndsWith(text, suffix) ==
    /\ Len(text) >= Len(suffix)
    /\ SubSeq(text, Len(text) - Len(suffix) + 1, Len(text)) = suffix

\* The handler of the tools/call with id id returns in this step, with a
\* result that is not an error.
Succeeds(id, tool) ==
    /\ Completes(id)
    /\ reqs[id].method = "tools/call"
    /\ reqs[id].name = tool
    /\ IsToolResult(reqs'[id].resp[1], id)
    /\ ~reqs'[id].resp[1].result[1].isError

\* The content of the file at a location, empty when there is no file.
ContentAt(f, loc) == IF KindAt(f, loc) = "file" THEN f[loc].content ELSE <<>>

\* Every directory above a location exists.
ParentsExist(f, loc) == \A n \in 0..(Len(loc) - 1) : KindAt(f, SubSeq(loc, 1, n)) = "dir"

\* C18: a write_file that succeeds leaves the file with the content given
\* (append absent or false) or with what it had followed by the content given
\* (append true; just the content when there was no file), under directories
\* that exist, and changes nothing else; its first step has created the
\* missing directories. A read_file that succeeds with the default encoding
\* returns the content the file has at that step.
C18_WriteThenReadRoundTrip ==
    [][\A id \in 1..MaxReq :
          /\ Succeeds(id, "write_file") =>
                LET loc == TargetOf(reqs[id])
                    content == reqs[id].args["content"].s
                    appends == Has(reqs[id].args, "append") /\ reqs[id].args["append"].b
                IN  /\ fs' = [fs EXCEPT ![loc] =
                                FileNode(IF appends THEN ContentAt(fs, loc) \o content
                                         ELSE content)]
                    /\ ParentsExist(fs', loc)
          /\ (/\ id \in DOMAIN reqs /\ id \in DOMAIN reqs'
              /\ reqs[id].calls = "write_file"
              /\ reqs[id].pc = "mkdir" /\ reqs'[id].pc = "write")
             => /\ ParentsExist(fs', TargetOf(reqs[id]))
                /\ \A l \in DOMAIN fs : fs[l].kind /= "none" => fs'[l] = fs[l]
          /\ (Succeeds(id, "read_file") /\ ~Has(reqs[id].args, "encoding")) =>
                /\ KindAt(fs, TargetOf(reqs[id])) = "file"
                /\ EndsWith(TextOf(reqs'[id].resp[1]),
                            <<"\n\n--- Content ---\n">> \o fs[TargetOf(reqs[id])].content)
                /\ fs' = fs]_vars

\* C18 happens: a write_file with append true has succeeded on a file that
\* existed, and the read_file sent after it has returned the previous
\* content followed by the appended one.
C18_Witness ==
    /\ fs[<<"w", "a.txt">>] = FileNode(<<"hello", "x">>)
    /\ \E i, j \in DOMAIN reqs :
            /\ i < j
            /\ reqs[i].calls = "write_file"
            /\ reqs[i].stage = "done"
            /\ ~reqs[i].resp[1].result[1].isError
            /\ reqs[j].calls = "read_file"
            /\ reqs[j].stage = "done"
            /\ IsToolResult(reqs[j].resp[1], j)
            /\ EndsWith(TextOf(reqs[j].resp[1]),
                        <<"\n\n--- Content ---\n", "hello", "x">>)

\* The handler of the tools/call with id id returns in this step, and its
\* target is of the given kind.
ReturnsOn(id, tool, kind) ==
    /\ Completes(id)
    /\ reqs[id].method = "tools/call"
    /\ reqs[id].name = tool
    /\ KindAt(fs, TargetOf(reqs[id])) = kind

\* The result of the request with id id has isError true, and the step left
\* the filesystem as it was.
RefusedUnchanged(id) ==
    /\ IsToolResult(reqs'[id].resp[1], id)
    /\ reqs'[id].resp[1].result[1].isError
    /\ fs' = fs

\* C19: read_file and delete_file on a directory, and list_directory on a
\* regular file, return isError true and leave the filesystem unchanged; a
\* delete_file that succeeds removes the file it names and nothing else, and
\* no step of these three tools changes the filesystem in any other way.
C19_WrongKindRefused ==
    [][\A id \in 1..MaxReq :
          /\ ReturnsOn(id, "read_file", "dir") => RefusedUnchanged(id)
          /\ ReturnsOn(id, "delete_file", "dir") => RefusedUnchanged(id)
          /\ ReturnsOn(id, "list_directory", "file") => RefusedUnchanged(id)
          /\ Succeeds(id, "delete_file") =>
                /\ KindAt(fs, TargetOf(reqs[id])) = "file"
                /\ fs' = [fs EXCEPT ![TargetOf(reqs[id])] = NoNode]
          /\ (/\ id \in DOMAIN reqs /\ id \in DOMAIN reqs'
              /\ reqs[id].calls \in {"read_file", "list_directory", "delete_file"}
              /\ reqs'[id] /= reqs[id])
             => \/ fs' = fs
                \/ /\ reqs[id].calls = "delete_file"
                   /\ KindAt(fs, TargetOf(reqs[id])) = "file"
                   /\ fs' = [fs EXCEPT ![TargetOf(reqs[id])] = NoNode]]_vars

\* C19 happens: a delete_file on a directory was refused, a delete_file on a
\* file has succeeded, and the filesystem differs from the initial one by
\* that file only.
C19_Witness ==
    /\ \E withReadme \in BOOLEAN :
            fs = [InitFs(withReadme) EXCEPT ![<<"w", "a.txt">>] = NoNode]
    /\ \E i, j \in DOMAIN reqs :
            /\ reqs[i].calls = "delete_file"
            /\ reqs[i].stage = "done"
            /\ KindAt(fs, TargetOf(reqs[i])) = "dir"
            /\ reqs[i].resp[1].result[1].isError
            /\ reqs[j].calls = "delete_file"
            /\ reqs[j].stage = "done"
            /\ TargetOf(reqs[j]) = <<"w", "a.txt">>
            /\ ~reqs[j].resp[1].result[1].isError

\* A pattern read as the tool describes it matches at position j of a name:
\* "*" stands for any run of characters, every other character for itself,
\* whatever its case.
RECURSIVE GlobAt(_, _, _, _)
GlobAt(pattern, i, chars, j) ==
    IF i > Len(pattern) THEN TRUE
    ELSE IF pattern[i] = "*"
    THEN \E k \in j..(Len(chars) + 1) : GlobAt(pattern, i + 1, chars, k)
    ELSE /\ j <= Len(chars)
         /\ Lower(chars[j]) = Lower(pattern[i])
         /\ GlobAt(pattern, i + 1, chars, j + 1)

\* The pattern matches somewhere in the name.
GlobMatches(pattern, name) ==
    \E j \in 1..(Len(Chars(name)) + 1) : GlobAt(pattern, 1, Chars(name), j)

\* A location is a regular file below dir with no skipped directory between.
SearchedFile(f, dir, l) ==
    /\ Len(l) > Len(dir)
    /\ SubSeq(l, 1, Len(dir)) = dir
    /\ KindAt(f, l) = "file"
    /\ \A n \in (Len(dir) + 1)..(Len(l) - 1) : l[n] \notin SkippedDirs

\* A search result's text has a line for the path of a location.
Lists(text, l) ==
    LET line == <<"  ">> \o PathStr(l)
    IN  \E i \in 0..(Len(text) - Len(line)) :
            /\ \A j \in 1..Len(line) : text[i + j] = line[j]
            /\ i + Len(line) = Len(text) \/ text[i + Len(line) + 1] = "\n"

\* C20, as the specification states it, for a search without maxResults: the
\* files the result lists are the regular files under the search directory,
\* outside skipped directories, whose name matches the pattern, with "*" any
\* run of characters and every other character of the pattern literal.
C20_SearchListsGlobMatches ==
    [][\A id \in 1..MaxReq :
          (/\ Completes(id)
           /\ reqs[id].calls = "search_files"
           /\ ~Has(reqs[id].args, "maxResults"))
          => /\ IsToolResult(reqs'[id].resp[1], id)
             /\ \A l \in DOMAIN fs :
                    Lists(TextOf(reqs'[id].resp[1]), l)
                    <=> /\ SearchedFile(fs, TargetOf(reqs[id]), l)
                        /\ GlobMatches(reqs[id].args["pattern"].s, Last(l))]_vars

\* The number of responses written for the requests 1 to n.
RECURSIVE SentUpTo(_, _)
SentUpTo(s, n) == IF n = 0 THEN 0 ELSE s[n] + SentUpTo(s, n - 1)

\* C21: the server's own code writes nothing to standard output: every write
\* there is a response the transport wrote. A process that exits at startup
\* has written its fault to standard error, and nothing to standard output,
\* in the step in which it exits; the banner is written to standard error in
\* a step that starts with the transport connected.
C21_ServerWritesStderrOnly ==
    [][/\ stdout'.server = 0
       /\ stdout'.transport = SentUpTo(sent', MaxReq)
       /\ (proc /= "exited" /\ proc' = "exited") =>
                /\ stdout' = stdout
                /\ Len(stderr') = Len(stderr) + 1
                /\ Last(stderr').text[2] = exitFault'
       /\ stderr' /= stderr =>
                /\ Front(stderr') = stderr
                /\ Last(stderr').text = BannerText =>
                        /\ session /= "Unconnected"
                        /\ Last(stderr').by = "server"]_vars

\* C21 happens: the server has started and written its banner to standard
\* error, and responses have been written to standard output by the
\* transport and by nothing else.
C21_Witness ==
    /\ proc = "serving"
    /\ session = "Ready"
    /\ Len(stderr) = 1
    /\ stderr[1].text = BannerText
    /\ stdout.transport >= 2
    /\ stdout.server = 0

\* The keys a zod shape does not declare optional.
RequiredKeys(shape) == {k \in DOMAIN shape : ~shape[k].optional}

\* The number of definitions of a name in a catalog.
Definitions(catalog, name) == Cardinality({i \in 1..Len(catalog) : catalog[i] = name})

\* C22: once the transport is connected, every registered tool and prompt has
\* exactly one definition of its name in ALL_TOOLS / ALL_PROMPTS (the one its
\* callback looks up), every definition of the catalogs is registered, and
\* the keys the validation schema requires are those the definition declares
\* required.
C22_CatalogAgrees ==
    session /= "Unconnected" =>
        /\ \A n \in Range(registry.tools) :
                /\ Definitions(ALL_TOOLS, toolCallback(n)) = 1
                /\ RequiredKeys(inputSchema(n)) = ToolRequired(toolCallback(n))
        /\ \A i \in 1..Len(ALL_TOOLS) : Definitions(registry.tools, ALL_TOOLS[i]) = 1
        /\ \A n \in Range(registry.prompts) :
                /\ Definitions(PromptNames, n) = 1
                /\ RequiredKeys(argsSchema(n)) = PromptRequired(n)
        /\ \A i \in 1..Len(PromptNames) : Definitions(registry.prompts, PromptNames[i]) = 1

\* C22 happens: the server is serving its six tools and three prompts, and a
\* tool handler and a prompt generator have been looked up and have returned.
C22_Witness ==
    /\ session = "Ready"
    /\ Len(registry.tools) = 6
    /\ Len(registry.prompts) = 3
    /\ \E i, j \in DOMAIN reqs :
            /\ reqs[i].calls \in Range(ALL_TOOLS)
            /\ reqs[i].stage = "done"
            /\ reqs[j].calls \in Range(PromptNames)
            /\ reqs[j].stage = "done"

\* The handlers of the delete_file calls i and j have both seen the same
\* file in their stat, and neither has unlinked it yet.
Racing(i, j) ==
    /\ i /= j
    /\ {i, j} \subseteq DOMAIN reqs
    /\ reqs[i].calls = "delete_file" /\ reqs[j].calls = "delete_file"
    /\ reqs[i].stage = "run" /\ reqs[j].stage = "run"
    /\ reqs[i].pc = "unlink" /\ reqs[j].pc = "unlink"
    /\ TargetOf(reqs[i]) = TargetOf(reqs[j])

\* C23: a delete_file that returns after its stat saw a file returns a tool
\* result, never a protocol error: a success when the file is still there
\* at its unlink, isError true when it is gone, and the file is absent
\* afterwards. So of two calls that both saw the file, the one that unlinks
\* first succeeds and leaves the other one, still before its unlink, with
\* the file gone.
C23_ConcurrentDeletesOneWins ==
    [][\A i \in 1..MaxReq :
          (/\ Completes(i)
           /\ reqs[i].calls = "delete_file"
           /\ reqs[i].pc = "unlink")
          => /\ IsToolResult(reqs'[i].resp[1], i)
             /\ reqs'[i].resp[1].result[1].isError
                    <=> KindAt(fs, TargetOf(reqs[i])) /= "file"
             /\ KindAt(fs', TargetOf(reqs[i])) = "none"
             /\ \A j \in 1..MaxReq : Racing(i, j) => reqs'[j] = reqs[j]]_vars

\* C23 happens: two delete_file calls for the same file have returned, one
\* with a success and the other, which failed in its unlink, with isError
\* true, and the file is absent.
C23_Witness ==
    \E i, j \in DOMAIN reqs :
        /\ i /= j
        /\ reqs[i].calls = "delete_file" /\ reqs[j].calls = "delete_file"
        /\ reqs[i].stage = "done" /\ reqs[j].stage = "done"
        /\ TargetOf(reqs[i]) = <<"w", "a.txt">>
        /\ TargetOf(reqs[j]) = <<"w", "a.txt">>
        /\ ~reqs[i].resp[1].result[1].isError
        /\ reqs[j].resp[1].result[1].isError
        /\ Contains(TextOf(reqs[j].resp[1]), <<"unlink">>)
        /\ KindAt(fs, <<"w", "a.txt">>) = "none"

-----------------------------------------------------------------------------
(* The resource reader around 512 * 1024 bytes *)

PRaw == <<"/", "w", "/", "raw">>
PBig == <<"/", "w", "/", "d", "/", "big.bin">>

\* Trees whose files are of 0, 1, 524287, 524288 and 524289 bytes, under a
\* text extension (a.txt), an unknown one (big.bin) and none (raw).
ResTrees ==
    { [l \in FsLocs \cup {<<"w", "raw">>} |->
          CASE l = <<"w", "raw">> -> FileNode(raw)
            [] l = <<"w", "d", "big.bin">> -> FileNode(big)
            [] l = <<"w", "a.txt">> -> FileNode(txt)
            [] OTHER -> InitFs(TRUE)[l]] :
        raw \in {<<>>, <<"x">>, <<"BIG-1">>, <<"BIG">>},
        big \in {<<"BIG-1">>, <<"BIG">>, <<"BIG", "x">>},
        txt \in {<<"hello">>, <<"BIG">>} }

ResUris == {FileUri(PRaw), FileUri(PBig), FileUri(PFile), FileUri(<<"/", "w", "/", "d">>)}

\* The handshake, reads of the files and of a directory, and a write that
\* makes a file one byte longer.
ResRequests ==
    {Req("initialize", "", NoArgs, <<>>)}
    \cup {Req("resources/read", "", NoArgs, u) : u \in ResUris}
    \cup {Req("tools/call", "write_file",
              With(Str2("path", PRaw, "content", <<"x">>), "append", BoolVal(TRUE)),
              <<>>)}

InitRes == script = IndexScript /\ InitProcess /\ fs \in ResTrees

NextRes ==
    \/ Startup
    \/ \E r \in ResRequests : Request(r)
    \/ Initialized
    \/ \E id \in 1..MaxReq : Step(id)
    \/ \E id \in 1..MaxReq : Forget(id)
    \/ Close

\* The server on trees with files of the sizes around the threshold.
SpecRes == InitRes /\ [][NextRes]_vars

\* The location a resources/read request names.
ReadLoc(e) == OsLoc(Tail(UrlToString(e.uri)))

\* A value readResource returns has exactly one of text and blob.
OneOfTextBlob(c) == (c.text = <<>>) /= (c.blob = <<>>)

\* C24: every value readResource returns has exactly one of text and blob
\* set. The read of a file is taken for a blob exactly when its extension is
\* not a text extension and the size its stat sees is at least 524288, and
\* for text otherwise; what is then returned is a base64 blob of type
\* application/octet-stream, respectively a text of type text/plain.
C24_BlobFromThreshold ==
    [][/\ \A u \in ResUris : \A pc \in {"start", "list", "text", "blob"} :
              \A r \in {readResource(pc, u, fs')} :
                  r.out /= <<>> => OneOfTextBlob(r.out[1])
       /\ \A id \in 1..MaxReq :
            /\ (/\ id \in DOMAIN reqs
                /\ reqs[id].method = "resources/read"
                /\ reqs[id].stage = "run"
                /\ reqs[id].pc = "start"
                /\ reqs'[id] /= reqs[id]
                /\ KindAt(fs, ReadLoc(reqs[id])) = "file")
               => /\ reqs'[id].stage = "run"
                  /\ reqs'[id].pc =
                        IF /\ ExtOf(ReadLoc(reqs[id])) \notin textMimes
                           /\ ByteLen(fs[ReadLoc(reqs[id])].content) >= 524288
                        THEN "blob" ELSE "text"
            /\ (/\ Completes(id)
                /\ reqs[id].method = "resources/read"
                /\ reqs[id].pc \in {"text", "blob"}
                /\ reqs'[id].resp[1].result /= <<>>)
               => \E c \in {reqs'[id].resp[1].result[1].contents[1]} :
                    IF reqs[id].pc = "blob"
                    THEN /\ c.mimeType = "application/octet-stream"
                         /\ c.blob = <<Base64(fs[ReadLoc(reqs[id])].content)>>
                         /\ c.text = <<>>
                    ELSE /\ c.mimeType = "text/plain"
                         /\ c.text = <<fs[ReadLoc(reqs[id])].content>>
                         /\ c.blob = <<>>]_vars

\* C24 happens: on one tree a file of 524287 bytes and no extension was read
\* as text, and a file of 524288 bytes and an unknown extension as a blob.
C24_Witness ==
    /\ ByteLen(fs[<<"w", "raw">>].content) = 524287
    /\ ByteLen(fs[<<"w", "d", "big.bin">>].content) = 524288
    /\ \E i, j \in DOMAIN reqs :
        /\ reqs[i].uri = FileUri(PRaw) /\ reqs[i].stage = "done"
        /\ reqs[i].resp[1].result /= <<>>
        /\ reqs[i].resp[1].result[1].contents[1].mimeType = "text/plain"
        /\ reqs[i].resp[1].result[1].contents[1].text = <<fs[<<"w", "raw">>].content>>
        /\ reqs[j].uri = FileUri(PBig) /\ reqs[j].stage = "done"
        /\ reqs[j].resp[1].result /= <<>>
        /\ reqs[j].resp[1].result[1].contents[1].mimeType = "application/octet-stream"
        /\ reqs[j].resp[1].result[1].contents[1].blob /= <<>>

-----------------------------------------------------------------------------
(* search_files on trees with directories the walk skips *)

\* The files of the trees searched, beside those of the tree the server
\* starts on: one in each directory the walk skips, and one in a skipped
\* directory further down.
SkippedFiles ==
    [node_modules |-> <<"w", "node_modules", "a.txt">>,
     git |-> <<"w", ".git", "c.txt">>,
     dist |-> <<"w", "dist", "b.ts">>,
     cache |-> <<"w", ".cache", "a.txt">>,
     nested |-> <<"w", "d", "dist", "a.txt">>]

SearchLocs ==
    FsLocs \cup {SkippedFiles[k] : k \in DOMAIN SkippedFiles}
           \cup {Front(SkippedFiles[k]) : k \in DOMAIN SkippedFiles}

\* The tree in which the files of SkippedFiles named by keys exist.
SearchTree(keys) ==
    [l \in SearchLocs |->
        IF \E k \in keys : l = SkippedFiles[k] THEN FileNode(<<"x">>)
        ELSE IF \E k \in keys : l = Front(SkippedFiles[k]) THEN DirNode
        ELSE IF l \in FsLocs THEN InitFs(TRUE)[l]
        ELSE NoNode]

SearchTrees ==
    {SearchTree(keys) :
        keys \in {{}, {"node_modules"}, {"git"}, {"dist"}, {"cache"}, {"nested"},
                  {"dist", "nested"}, DOMAIN SkippedFiles}}

\* The values of maxResults tried: none, zero, a negative one, small ones,
\* a fraction (1.5), the default.
MaxResultsTried ==
    {NumVal(0), NumVal(0 - 1), NumVal(1), NumVal(2), NumHalf(1), NumVal(DefaultMaxResults)}

SearchRequests ==
    {Req("initialize", "", NoArgs, <<>>)}
    \cup {Req("tools/call", "search_files", Str2("directory", p, "pattern", <<"*">>), <<>>) :
            p \in {PHere, PDir, PMissing}}
    \cup {Req("tools/call", "search_files",
              With(Str2("directory", p, "pattern", <<"*">>), "maxResults", m), <<>>) :
            p \in {PHere, PDir}, m \in MaxResultsTried}
    \cup {Req("tools/call", "search_files",
              Str2("directory", PHere, "pattern", <<"*", ".", "t", "s">>), <<>>),
          Req("tools/call", "write_file", Str2("path", PDeep, "content", <<"x">>), <<>>)}

InitSearch == script = IndexScript /\ InitProcess /\ fs \in SearchTrees

NextSearch ==
    \/ Startup
    \/ \E r \in SearchRequests : Request(r)
    \/ Initialized
    \/ \E id \in 1..MaxReq : Step(id)
    \/ \E id \in 1..MaxReq : Forget(id)
    \/ Close

\* The server on trees with skipped directories.
SpecSearch == InitSearch /\ [][NextSearch]_vars

\* The positions of a search result's text at which the line of a path
\* string starts.
LinesOf(text, str) ==
    {i \in 0..(Len(text) - Len(str) - 1) :
        /\ text[i + 1] = "  "
        /\ \A j \in 1..Len(str) : text[i + 1 + j] = str[j]
        /\ i + 1 + Len(str) = Len(text) \/ text[i + 2 + Len(str)] = "\n"}

\* The number of paths a search result's text reports.
Reported(text) == Cardinality({i \in 1..Len(text) : text[i] = "  "})

\* The value of maxResults a search_files call runs with.
MaxResultsOf(args) ==
    IF Has(args, "maxResults") THEN args["maxResults"] ELSE NumVal(DefaultMaxResults)

\* The matching files of the whole walk, in its order.
WholeWalk(e, f) ==
    walkAndMatch(f, TargetOf(e), RegexOf(e.args["pattern"].s).items, <<>>,
                 NumVal(Cardinality(DOMAIN f)))

\* What C25 says of the text of a search_files result for the request e on
\* the tree f: at most max(0, maxResults) paths (twice the number of paths
\* is at most max(0, 2 * maxResults)); the paths are the first ones of the
\* walk, so nothing is visited once the limit is reached; each file once at
\* most; no file under a skipped directory of the tree searched.
SearchWithinLimit(e, f, text) ==
    /\ \E m \in {MaxResultsOf(e.args)} : \E twice \in {2 * m.n + (IF m.half THEN 1 ELSE 0)} :
            2 * Reported(text) <= (IF twice > 0 THEN twice ELSE 0)
    /\ \E all \in {WholeWalk(e, f)} :
            \A k \in 1..Len(all) :
                LinesOf(text, all[k]) /= {} =>
                    \A before \in 1..(k - 1) : LinesOf(text, all[before]) /= {}
    /\ \A l \in DOMAIN f :
            /\ Cardinality(LinesOf(text, PathStr(l))) <= 1
            /\ LinesOf(text, PathStr(l)) /= {} =>
                    /\ KindAt(f, l) = "file"
                    /\ \A n \in (Len(TargetOf(e)) + 1)..(Len(l) - 1) : l[n] \notin SkippedDirs

\* C25: for every tree and every maxResults (50 when absent), search_files
\* reports at most max(0, maxResults) paths, stops once the limit is
\* reached, reports each file at most once and never a file under a
\* directory named node_modules, .git, dist or .cache.
C25_SearchRespectsLimit ==
    [][\A id \in 1..MaxReq :
          (/\ Succeeds(id, "search_files")
           /\ ~reqs'[id].resp[1].result[1].isError)
          => SearchWithinLimit(reqs[id], fs, TextOf(reqs'[id].resp[1]))]_vars

-----------------------------------------------------------------------------
(* The prompt generators on deep trees *)

\* The location of b.ts below n nested directories d of the working directory.
RECURSIVE Nested(_)
Nested(n) == IF n = 0 THEN Cwd ELSE Append(Nested(n - 1), "d")

\* The files the trees of the prompts may hold beside a.txt, by key.
PromptFiles ==
    [cache |-> <<"w", ".cache", "b.ts">>,
     git |-> <<"w", ".git", "b.ts">>,
     pycache |-> <<"w", "__pycache__", "b.ts">>,
     top |-> <<"w", "b.ts">>,
     d1 |-> Append(Nested(1), "b.ts"),
     d3 |-> Append(Nested(3), "b.ts"),
     d4 |-> Append(Nested(4), "b.ts"),
     d5 |-> Append(Nested(5), "b.ts"),
     d6 |-> Append(Nested(6), "b.ts"),
     dist |-> <<"w", "dist", "b.ts">>,
     nm |-> <<"w", "node_modules", "b.ts">>]

\* A location is loc or lies above it.
IsPrefix(p, loc) == Len(p) <= Len(loc) /\ SubSeq(loc, 1, Len(p)) = p

PromptLocs ==
    {<<"w", "a.txt">>, <<"w", "nope">>}
    \cup UNION {{SubSeq(PromptFiles[k], 1, n) : n \in 0..Len(PromptFiles[k])} :
                    k \in DOMAIN PromptFiles}

\* The tree that holds a.txt and the files of PromptFiles named by keys, with
\* the directories above them.
PromptTree(keys) ==
    [l \in PromptLocs |->
        IF l = <<"w", "a.txt">> THEN FileNode(<<"hello">>)
        ELSE IF \E k \in keys : l = PromptFiles[k] THEN FileNode(<<"code">>)
        ELSE IF l \in {<<>>, Cwd} \/ \E k \in keys : IsPrefix(l, PromptFiles[k]) THEN DirNode
        ELSE NoNode]

PromptTrees ==
    {PromptTree(keys) :
        keys \in {{}, {"d6"}, {"d5", "d6"}, {"d4"}, {"d3", "d4"}, {"cache", "top"},
                  {"git", "dist", "nm"}, {"git", "dist", "nm", "d6"}, {"pycache", "d1"},
                  {"top", "d1"}, DOMAIN PromptFiles}}

PTop == <<"b.ts">>

\* The argument mappings the generators are called with: conforming ones,
\* and ones with keys absent.
GenerateArgs ==
    {NoArgs, Str1("path", PHere), Str1("path", PDir), Str1("path", PMissing),
     Str1("path", PFile), Str1("focus", <<"security">>),
     Str1("filename", PTop), Str2("filename", PTop, "directory", PDir),
     Str2("filename", PTop, "directory", PMissing), Str1("filename", <<"zzz">>),
     Str1("filename", <<"d">>), Str1("directory", PHere)}

PromptRequests ==
    {Req("initialize", "", NoArgs, <<>>)}
    \cup {Req("prompts/get", "summarize-directory", a, <<>>) :
            a \in {NoArgs, Str1("path", PHere), Str1("path", PMissing)}}
    \cup {Req("prompts/get", "find-and-explain", a, <<>>) :
            a \in {Str1("filename", PTop), Str2("filename", PTop, "directory", PDir),
                   Str1("filename", <<"zzz">>)}}
    \cup {Req("prompts/get", "review-file", Str1("path", PFile), <<>>)}
    \cup {Req("tools/call", "write_file", Str2("path", PTop, "content", <<"x">>), <<>>),
          Req("tools/call", "delete_file", Str1("path", PTop), <<>>)}

InitPrompt == script = IndexScript /\ InitProcess /\ fs \in PromptTrees

NextPrompt ==
    \/ Startup
    \/ \E r \in PromptRequests : Request(r)
    \/ Initialized
    \/ \E id \in 1..MaxReq : Step(id)
    \/ \E id \in 1..MaxReq : Forget(id)
    \/ Close

\* The server on deep trees, asked for prompts.
SpecPrompt == InitPrompt /\ [][NextPrompt]_vars

\* The messages are exactly one message of role user with a text content.
OneUserText(messages) ==
    /\ Len(messages) = 1
    /\ messages[1].role = "user"
    /\ messages[1].content.type = "text"

\* The step starts on a tree no earlier step started on.
OnNewTree == spc = 1 \/ fs' /= fs

\* C26: each of the three generators, for every argument mapping (absent
\* required and optional keys included) and every tree, throws nothing and
\* returns exactly one message of role user with a text content; a
\* prompts/get that was dispatched to a generator is answered with that
\* message, and the filesystem is as it was.
C26_GeneratorsNeverThrow ==
    [][/\ OnNewTree =>
            \A name \in Range(PromptNames) : \A args \in GenerateArgs :
                \A f \in {fs, fs'} :
                    \E g \in {promptGenerate(name, args, f)} :
                        g.thrown = "" /\ OneUserText(g.messages)
       /\ \A id \in 1..MaxReq :
            (Completes(id) /\ reqs[id].method = "prompts/get")
            => /\ reqs'[id].resp[1].error = <<>>
               /\ Len(reqs'[id].resp[1].result) = 1
               /\ OneUserText(reqs'[id].resp[1].result[1].messages)
               /\ fs' = fs]_vars

\* The text of the message a completed prompts/get was answered with.
PromptText(e) == e.resp[1].result[1].messages[1].content.text

\* C26 happens: summarize-directory was asked for a directory that does not
\* exist and find-and-explain for a file that is nowhere, and both were
\* answered with their message.
C26_Witness ==
    \E i, j \in DOMAIN reqs :
        /\ reqs[i].name = "summarize-directory" /\ reqs[i].stage = "done"
        /\ reqs[i].resp[1].result /= <<>>
        /\ Contains(PromptText(reqs[i]), <<"(Could not read directory)">>)
        /\ reqs[j].name = "find-and-explain" /\ reqs[j].stage = "done"
        /\ reqs[j].resp[1].result /= <<>>
        /\ Contains(PromptText(reqs[j]), <<"(File not found)">>)
        /\ fs \in PromptTrees

\* The position of a name among the entries readdir reports.
EntryPos(name) == CHOOSE i \in 1..Len(NameOrder) : NameOrder[i] = name

\* The entry walk reaches l1 before l2: below the last directory the two
\* have in common, the entry towards l1 comes first.
Before(l1, l2) ==
    \E i \in 1..Len(l1) :
        /\ i <= Len(l2)
        /\ SubSeq(l1, 1, i - 1) = SubSeq(l2, 1, i - 1)
        /\ l1[i] /= l2[i]
        /\ EntryPos(l1[i]) < EntryPos(l2[i])

\* The number of directories between root and the entry at l.
DirsBelow(root, l) == Len(l) - Len(root) - 1

\* The entries of f that buildTree, called on root, may emit: those at most
\* three directories below root, with no ignored name on the way or as
\* their own.
Emittable(f, root) ==
    {l \in DOMAIN f :
        /\ KindAt(f, l) /= "none"
        /\ Len(l) > Len(root) /\ IsPrefix(root, l)
        /\ DirsBelow(root, l) <= 3
        /\ \A n \in (Len(root) + 1)..Len(l) :
                l[n] \notin {"node_modules", ".git", "dist", ".cache", "__pycache__"}}

\* The files of f that findFirst, called on root for filename, may return:
\* regular files of that name, at most five directories below root, under
\* no ignored directory.
Findable(f, root, filename) ==
    {l \in DOMAIN f :
        /\ KindAt(f, l) = "file"
        /\ <<Last(l)>> = filename
        /\ Len(l) > Len(root) /\ IsPrefix(root, l)
        /\ DirsBelow(root, l) <= 5
        /\ \A n \in (Len(root) + 1)..(Len(l) - 1) :
                l[n] \notin {"node_modules", ".git", "dist"}}

\* The lines of a tree text.
TreeLines(text) ==
    IF text = <<>> THEN 0
    ELSE 1 + Cardinality({i \in 1..Len(text) : text[i] = "\n"})

\* What C27 says of the tree buildTree returns for root: no line is
\* indented by more than three levels, no ignored name is on a line, and
\* the lines are those of the entries at most three directories down.
TreeWithinDepth(f, root, bt) ==
    bt.err = "" =>
        /\ \A i \in 1..(Len(bt.text) - 3) : \E j \in 0..3 : bt.text[i + j] /= "  "
        /\ \A i \in 1..Len(bt.text) :
                bt.text[i] \notin {"node_modules", ".git", "dist", ".cache", "__pycache__"}
        /\ TreeLines(bt.text) = Cardinality(Emittable(f, root))

\* What C27 says of the value findFirst returns for root and filename: null
\* when no file qualifies, and otherwise the path of the qualifying file the
\* entry walk reaches first.
FoundIsFirst(f, root, filename, ff) ==
    ff.err = "" =>
        IF Findable(f, root, filename) = {} THEN ff.found = <<>>
        ELSE \E l \in Findable(f, root, filename) :
                /\ ff.found = <<PathStr(l)>>
                /\ \A other \in Findable(f, root, filename) \ {l} : Before(l, other)

\* The directories the walks are started on, and the names looked for.
WalkRoots == {Cwd, Nested(1), Nested(2), <<"w", "nope">>}
WalkNames == {<<"b.ts">>, <<"a.txt">>, <<"d">>, <<>>}

\* C27: the recursive walks come to an end on every tree, collectEntries
\* with one line for each entry below its directory; buildTree with
\* maxDepth 3 emits no entry more than three directories below its root and
\* none called node_modules, .git, dist, .cache or __pycache__; findFirst
\* with maxDepth 5 returns null or the path of a regular file of the name
\* asked for, at most five directories below the root, under no
\* node_modules, .git or dist, and the first such in depth-first entry order.
C27_WalksBounded ==
    [][OnNewTree =>
        \A f \in {fs, fs'} : \A root \in WalkRoots :
            /\ TreeWithinDepth(f, root, buildTree(f, root, 0, TreeMaxDepth))
            /\ \A filename \in WalkNames :
                FoundIsFirst(f, root, filename,
                             findFirst(f, root, filename, 0, FindMaxDepth))
            /\ \E c \in {collectEntries(f, root, root, TRUE, <<>>)} :
                    c.err = "" =>
                        Len(c.lines) =
                            Cardinality({l \in DOMAIN f :
                                            /\ KindAt(f, l) /= "none"
                                            /\ Len(l) > Len(root)
                                            /\ IsPrefix(root, l)})]_vars

\* C27 happens: on a tree with b.ts five and six directories down,
\* summarize-directory was answered with a tree whose deepest line is
\* indented three levels, and find-and-explain with the file five
\* directories down.
C27_Witness ==
    /\ KindAt(fs, Append(Nested(6), "b.ts")) = "file"
    /\ KindAt(fs, Append(Nested(5), "b.ts")) = "file"
    /\ KindAt(fs, <<"w", "b.ts">>) = "none"
    /\ \E i, j \in DOMAIN reqs :
        /\ reqs[i].name = "summarize-directory" /\ reqs[i].stage = "done"
        /\ reqs[i].resp[1].result /= <<>>
        /\ Contains(PromptText(reqs[i]), <<"\n", "  ", "  ", "  ", "d", "/">>)
        /\ ~Contains(PromptText(reqs[i]), <<"  ", "  ", "  ", "  ">>)
        /\ reqs[j].name = "find-and-explain" /\ reqs[j].stage = "done"
        /\ reqs[j].resp[1].result /= <<>>
        /\ Contains(PromptText(reqs[j]), PathStr(Append(Nested(5), "b.ts")))

-----------------------------------------------------------------------------
(* The static resources of a working directory *)

CandidateNames == <<"README.md", "package.json", "tsconfig.json", ".env">>

\* The working directories the server is started in: every choice of the
\* four candidate files, and one in which package.json is a directory.
CwdTree(present, dirs) ==
    [l \in FsLocs \cup {Append(Cwd, n) : n \in Range(CandidateNames)} |->
        IF Len(l) = 2 /\ l[1] = "w" /\ l[2] \in Range(CandidateNames)
        THEN IF l[2] \in dirs THEN DirNode
             ELSE IF l[2] \in present THEN FileNode(<<"text">>)
             ELSE NoNode
        ELSE InitFs(FALSE)[l]]

CwdTrees ==
    {CwdTree(present, {}) : present \in SUBSET Range(CandidateNames)}
    \cup {CwdTree({"README.md"}, {"package.json"})}

CwdRequests ==
    {Req(m, "", NoArgs, <<>>) : m \in {"initialize", "resources/list"}}
    \cup {Req("resources/read", "", NoArgs, u) :
            u \in {FileUri(<<"/", "w", "/", ".env">>), FileUri(<<"/", "w", "/">>),
                   FileUri(<<"/", "w", "/", "package.json">>)}}

InitCwd == script = IndexScript /\ InitProcess /\ fs \in CwdTrees

NextCwd ==
    \/ Startup
    \/ \E r \in CwdRequests : Request(r)
    \/ Initialized
    \/ \E id \in 1..MaxReq : Step(id)
    \/ \E id \in 1..MaxReq : Forget(id)
    \/ Close

\* The server started in each of the working directories.
SpecCwd == InitCwd /\ [][NextCwd]_vars

\* The elements of a sequence differ pairwise.
Distinct(s) == \A i, j \in 1..Len(s) : i /= j => s[i] /= s[j]

\* What C28 says of the entries s built on the tree f.
StaticsAsStated(s, f) ==
    /\ Len(s) \in 1..5
    /\ Last(s).name = "Working Directory"
    /\ Last(s).uri = <<"file://", "/", "w", "/">>
    /\ [i \in 1..(Len(s) - 1) |-> s[i].name]
         = SelectSeq(CandidateNames,
                     LAMBDA n : LookupErr(f, Append(Cwd, n)) = "")
    /\ \A i \in 1..(Len(s) - 1) : s[i].uri = <<"file://", "/", "w", "/", s[i].name>>
    /\ Distinct([i \in 1..Len(s) |-> s[i].uri])
    /\ Distinct([i \in 1..Len(s) |-> s[i].name] \o <<"file">>)

\* C28: buildStaticResources returns one to five entries: README.md,
\* package.json, tsconfig.json and .env in this order, each there exactly
\* when the file can be accessed, and last the entry 'Working Directory' of
\* URI file://<cwd>/; the URIs and the names differ pairwise, and from the
\* template's name 'file', so main() registers them all without a fault.
C28_StaticsDistinct ==
    [][/\ (At("build") /\ spc' /= spc) => StaticsAsStated(statics', fs)
       /\ (At("statics") \/ At("template")) =>
            /\ proc' /= "exited"
            /\ At("statics") => registry'.resources = statics
            /\ At("template") =>
                    /\ Len(registry'.templates) = 1
                    /\ registry'.templates[1].name = "file"]_vars

\* C28 happens: started where all four files are there, the server serves
\* with the five entries and the template registered.
C28_Witness ==
    /\ proc = "serving"
    /\ Len(statics) = 5
    /\ registry.resources = statics
    /\ Len(registry.templates) = 1
    /\ \E i \in DOMAIN reqs :
            /\ reqs[i].method = "resources/list"
            /\ reqs[i].stage = "done"
            /\ reqs[i].resp[1].result /= <<>>

=============================================================================
